---- MODULE Spec2Model ----
(***************************************************************************)
(* Model of the multi-step tool loop of bitop-dev/ai:                      *)
(*   - internal/text.Generate       (blocking step loop engine)            *)
(*   - internal/text.Stream.Next    (streaming step engine)                *)
(*   - executeToolCallsProviderWithOptions (tool dispatcher)               *)
(*   - internal/object.Generate     (object enforcer, blocking)            *)
(* Text is a sequence of tokens, so that concatenation is \o.              *)
(***************************************************************************)
EXTENDS Integers, Sequences, FiniteSets, TLC

VARIABLES
    script,     \* the provider's turns, by call number (fixed for a run)
    opts,       \* text.Options / object.Options of the request
    reqTools,   \* req.Tools: the tools the caller declared
    gen,        \* the blocking engine's run (text.Generate)
    strm,       \* the streaming engine's state (text.Stream)
    obj,        \* the object enforcer's run (object.Generate)
    ostrm,      \* the streaming object enforcer's state (object.Stream)
    dec,        \* the provider's delta decoder (openai stream)
    agent       \* the Agent whose request is run, if one is

vars == <<script, opts, reqTools, gen, strm, obj, ostrm, dec, agent>>

----------------------------------------------------------------------------
(* Bounds of the model. *)

\* longest prefix of tool-calling turns in a script
MaxCont == 2
\* largest MaxIterations option a request sets (0 = unset)
MaxIterOpt == 3
\* largest MaxRetries option an object request sets
MaxRetriesOpt == 2
\* largest ToolLoop.MaxIterations an object request sets (0 = unset)
MaxObjIterOpt == 2

(* Program constants. *)

\* text.Generate / NewStream / object.Generate: maxIterations <= 0 -> 5
DefaultMaxIterations == 5

ReturnToolName == "__ai_return_json"

----------------------------------------------------------------------------
(* Data model: provider.Message, provider.Response, provider.Usage. *)

NoErr == [kind |-> "nil", tool |-> "", id |-> "", n |-> 0]
Err(kind, tool, id, n) == [kind |-> kind, tool |-> tool, id |-> id, n |-> n]

ZeroUsage == [PromptTokens |-> 0, CompletionTokens |-> 0, TotalTokens |-> 0]
Usage(p, c) == [PromptTokens |-> p, CompletionTokens |-> c, TotalTokens |-> p + c]

\* the total taken from the last response instead of summed
AddUsageLastTotal(a, b) ==
    [PromptTokens     |-> a.PromptTokens + b.PromptTokens,
     CompletionTokens |-> a.CompletionTokens + b.CompletionTokens,
     TotalTokens      |-> b.TotalTokens]

\* tools.AddUsage
AddUsage(a, b) ==
    [PromptTokens     |-> a.PromptTokens + b.PromptTokens,
     CompletionTokens |-> a.CompletionTokens + b.CompletionTokens,
     TotalTokens      |-> a.TotalTokens + b.TotalTokens]

Msg(role, text, calls, toolCallId, name) ==
    [Role |-> role, Text |-> text, Calls |-> calls,
     ToolCallID |-> toolCallId, Name |-> name]

UserMsg(text) == Msg("user", text, <<>>, "", "")
SystemMsg(text) == Msg("system", text, <<>>, "", "")
AssistantMsg(text, calls) == Msg("assistant", text, calls, "", "")

Call(id, name, args) == [ID |-> id, Name |-> name, Args |-> args]

\* the zero provider.Response (GenerateResult{} on an error return)
ZeroResponse ==
    [Message |-> Msg("", <<>>, <<>>, "", ""), Usage |-> ZeroUsage, FinishReason |-> ""]

RECURSIVE Flatten(_)
Flatten(ss) == IF ss = <<>> THEN <<>> ELSE Head(ss) \o Flatten(Tail(ss))

\* tools.ExtractToolCalls: the tool-call parts of a message, in order
ExtractToolCalls(m) == m.Calls

----------------------------------------------------------------------------
(* JSON arguments: a document is <<"{", v, "}">>.  v = "i" an integer,    *)
(* "s" a string, "f" a fraction; anything else is not JSON.               *)

JsonDoc(v) == <<"{", v, "}">>
JsonValid(raw) == Len(raw) = 3 /\ raw[1] = "{" /\ raw[3] = "}" /\ raw[2] \in {"i", "s", "f"}

\* validateJSONAgainstSchema with the schema {value: number}
SchemaNumber == "number"
NoSchema == ""
ValidateJSONAgainstSchema(schema, raw) ==
    IF schema = NoSchema THEN "ok"
    ELSE IF Len(raw) = 0 THEN "empty json"
    ELSE IF ~JsonValid(raw) THEN "parse json"
    ELSE IF raw[2] \in {"i", "f"} THEN "ok"
    ELSE "schema"

----------------------------------------------------------------------------
(* The caller's tools.  A handler fails on the fraction and otherwise      *)
(* returns a value made from its arguments.                                *)

Tool(name, schema, handler) == [Name |-> name, InputSchema |-> schema, Handler |-> handler]

AddTool == Tool("add", SchemaNumber, "fn")
EchoTool == Tool("echo", NoSchema, "fn")
DeclaredTools == <<AddTool, EchoTool>>

HandlerFails(args) == args = JsonDoc("f")
HandlerValue(name, args) == <<"res", name>> \o args

ToolNames(tools) == [i \in 1..Len(tools) |-> tools[i].Name]

\* an unknown name falls back to the first tool
FindToolOrFirst(tools, name) ==
    IF \E i \in 1..Len(tools) : tools[i].Name = name
    THEN CHOOSE i \in 1..Len(tools) :
            tools[i].Name = name /\ \A j \in 1..(i-1) : tools[j].Name # name
    ELSE 1

\* findTool: index of the first tool with that name, 0 if none
FindTool(tools, name) ==
    IF \E i \in 1..Len(tools) : tools[i].Name = name
    THEN CHOOSE i \in 1..Len(tools) :
            tools[i].Name = name /\ \A j \in 1..(i-1) : tools[j].Name # name
    ELSE 0

\* the id and the name of the result message swapped
ToolResultProviderSwapped(toolCallID, toolName, value) ==
    Msg("tool", value, <<>>, toolName, toolCallID)

\* toolResultProvider
ToolResultProvider(toolCallID, toolName, value) ==
    Msg("tool", value, <<>>, toolCallID, toolName)

Ev(ev, turn, idx) == [ev |-> ev, turn |-> turn, idx |-> idx]

\* an event of a tool's input hooks: ToolInputStartEvent, ToolInputDeltaEvent
\* (text is InputTextDelta), ToolInputAvailableEvent (text is Input)
HookEv(ev, turn, idx, name, id, index, text) ==
    [ev |-> ev, turn |-> turn, idx |-> idx, ToolName |-> name, ToolCallID |-> id,
     ToolCallIndex |-> index, text |-> text]

----------------------------------------------------------------------------
(* Tool dispatcher: executeToolCallsProviderWithOptions.  The result is    *)
(* [results, err, log]; log holds the handler and hook events in order.    *)

DispatchOut(results, err, log) == [results |-> results, err |-> err, log |-> log]

\* the handler started and not waited for
InvokeHandlerAsync(turn, i) == <<Ev("handler_start", turn, i)>>

\* one handler invocation: t.Handler(execCtx, call.Args) runs to its return
InvokeHandler(turn, i) == <<Ev("handler_start", turn, i), Ev("handler_end", turn, i)>>

\* the newest result put first
AppendResultFront(results, m) == <<m>> \o results

\* results = append(results, toolResultProvider(...))
AppendResult(results, m) == Append(results, m)

\* the body of `for _, call := range calls`, from call i on
RECURSIVE ExecLoop(_, _, _, _, _, _, _)
ExecLoop(tools, calls, i, results, log, turn, hooks) ==
    IF i > Len(calls) THEN DispatchOut(results, NoErr, log)
    ELSE
      LET call == calls[i]
          k == FindTool(tools, call.Name)
      IN
      IF call.ID = "" THEN DispatchOut(<<>>, Err("MissingID", "", "", 0), log)
      ELSE IF k = 0 THEN DispatchOut(<<>>, Err("NoSuchTool", call.Name, "", 0), log)
      ELSE IF tools[k].Handler = "nil"
        THEN DispatchOut(<<>>, Err("MissingHandler", call.Name, "", 0), log)
      ELSE IF ValidateJSONAgainstSchema(tools[k].InputSchema, call.Args) # "ok"
        THEN DispatchOut(<<>>, Err("InvalidToolInput", tools[k].Name, call.ID, 0), log)
      ELSE
        LET hits == SelectSeq(hooks.indexByID, LAMBDA e : e.id = call.ID)
            toolCallIndex == IF hits = <<>> THEN -1 ELSE hits[Len(hits)].index
            avail == IF hooks.on
                     THEN <<HookEv("input_available", turn, i, tools[k].Name, call.ID,
                                   toolCallIndex, call.Args)>>
                     ELSE <<>>
            ran == InvokeHandler(turn, i)
            \* the handler reports its progress once, when meta.Report is set
            progress == IF hooks.on
                        THEN <<HookEv("progress", turn, i, tools[k].Name, call.ID,
                                      toolCallIndex, <<>>)>>
                        ELSE <<>>
            log2 == log \o avail \o SubSeq(ran, 1, 1) \o progress
                        \o SubSeq(ran, 2, Len(ran))
        IN
        IF HandlerFails(call.Args)
        THEN DispatchOut(<<>>, Err("ToolExecution", tools[k].Name, call.ID, 0), log2)
        ELSE ExecLoop(tools, calls, i + 1,
                      AppendResult(results,
                             ToolResultProvider(call.ID, tools[k].Name,
                                                HandlerValue(tools[k].Name, call.Args))),
                      log2, turn, hooks)

\* no dispatch unless the callbacks are registered
ExecuteToolCallsHooksRequired(tools, calls, turn, hooks) ==
    IF Len(calls) = 0 \/ ~hooks.on THEN DispatchOut(<<>>, NoErr, <<>>)
    ELSE IF Len(tools) = 0 THEN DispatchOut(<<>>, Err("NoTools", "", "", 0), <<>>)
    ELSE ExecLoop(tools, calls, 1, <<>>, <<>>, turn, hooks)

\* hooks: on when the request registers the callbacks of the dispatch
\* (OnInputAvailable of the tools, OnToolProgress; StreamText passes them,
\* GenerateText does not); indexByID is what opts.toolCallIndexByID looks
\* the position up in
ExecuteToolCalls(tools, calls, turn, hooks) ==
    IF Len(calls) = 0 THEN DispatchOut(<<>>, NoErr, <<>>)
    ELSE IF Len(tools) = 0 THEN DispatchOut(<<>>, Err("NoTools", "", "", 0), <<>>)
    ELSE ExecLoop(tools, calls, 1, <<>>, <<>>, turn, hooks)

----------------------------------------------------------------------------
(* The provider: a script of turns, one per call (the fake provider of the *)
(* tests answers by call number).  A turn is an error or a response given  *)
(* as text fragments, tool calls and usage.                                *)

Turn(kind, frags, calls, usage, finish) ==
    [kind |-> kind, frags |-> frags, calls |-> calls, usage |-> usage, finish |-> finish]

COk1   == Call("c1", "add", JsonDoc("i"))
COk2   == Call("c2", "add", JsonDoc("i"))
CEcho2 == Call("c2", "echo", JsonDoc("s"))
CBad1  == Call("c1", "add", JsonDoc("s"))
CNope1 == Call("c1", "nope", JsonDoc("i"))
CBoom1 == Call("c1", "add", JsonDoc("f"))
CBoom2 == Call("c2", "echo", JsonDoc("f"))
CNoId  == Call("", "add", JsonDoc("i"))

\* turns whose tool calls all succeed
OneCallTurn == Turn("resp", << <<"t">> >>, <<COk1>>, Usage(1, 1), "tool_calls")
TwoCallTurn == Turn("resp", <<>>, <<COk1, CEcho2>>, Usage(2, 1), "tool_calls")
ContTurns == {OneCallTurn, TwoCallTurn}

\* turns that end a run
TextTurn   == Turn("resp", << <<"h">>, <<>>, <<"i">> >>, <<>>, Usage(1, 2), "stop")
BadTurn    == Turn("resp", <<>>, <<CBad1, COk2>>, Usage(1, 1), "tool_calls")
NopeTurn   == Turn("resp", <<>>, <<CNope1, COk2>>, Usage(1, 1), "tool_calls")
BoomTurn   == Turn("resp", <<>>, <<CBoom1, COk2>>, Usage(1, 1), "tool_calls")
OkBoomTurn == Turn("resp", << <<"w">> >>, <<COk1, CBoom2>>, Usage(1, 1), "tool_calls")
NoIdTurn   == Turn("resp", <<>>, <<CNoId>>, Usage(1, 1), "tool_calls")
\* the provider fails: at once, or (streaming) after a first fragment
ErrorTurn  == Turn("error", <<>>, <<>>, ZeroUsage, "")
MidErrTurn == Turn("error", << <<"p">> >>, <<>>, ZeroUsage, "")
TermTurns ==
    {TextTurn, BadTurn, NopeTurn, BoomTurn, OkBoomTurn, NoIdTurn, ErrorTurn, MidErrTurn}

RECURSIVE SeqsUpTo(_, _)
SeqsUpTo(S, n) ==
    IF n = 0 THEN {<<>>}
    ELSE LET shorter == SeqsUpTo(S, n - 1)
         IN shorter \cup {Append(q, x) : q \in shorter, x \in S}

\* a script: tool-calling turns followed by a turn that ends the run
Scripts == {pre \o <<t>> : pre \in SeqsUpTo(ContTurns, MaxCont), t \in TermTurns}

\* the provider's answer to call number n (1-based); a provider asked beyond
\* its script fails
TurnAt(scr, n) == IF n <= Len(scr) THEN scr[n] ELSE ErrorTurn

\* the turn as one response (provider.Generate, and Stream.Final)
FinalResponse(turn) ==
    [Message |-> AssistantMsg(Flatten(turn.frags), turn.calls),
     Usage |-> turn.usage, FinishReason |-> turn.finish]

\* the turn as deltas (provider.Stream): the text fragments, then one
\* tool-call fragment per call
Delta(text, toolCalls) == [Text |-> text, ToolCalls |-> toolCalls]
Deltas(turn) ==
    [i \in 1..Len(turn.frags) |-> Delta(turn.frags[i], <<>>)]
    \o [i \in 1..Len(turn.calls) |->
          Delta(<<>>, <<[Index |-> i - 1, ID |-> turn.calls[i].ID,
                        Name |-> turn.calls[i].Name,
                        ArgumentsDelta |-> turn.calls[i].Args]>>)]

\* how a provider stream cuts the arguments of a tool call into fragments:
\* "whole" is one fragment with id and name; "named" is one fragment per
\* token, the first with id and name; "anon" is one fragment per token, none
\* with id or name (they came in a chunk of their own, without arguments,
\* which the provider stream does not pass on)
ArgSplits == {"whole", "named", "anon"}

ToolCallDelta(index, id, name, argumentsDelta) ==
    [Index |-> index, ID |-> id, Name |-> name, ArgumentsDelta |-> argumentsDelta]

\* the fragments of call number i of a turn
CallDeltas(c, i, split) ==
    IF split = "whole" \/ c.Args = <<>>
    THEN <<Delta(<<>>, <<ToolCallDelta(i - 1, c.ID, c.Name, c.Args)>>)>>
    ELSE [k \in 1..Len(c.Args) |->
            Delta(<<>>, <<ToolCallDelta(i - 1,
                                        IF split = "named" /\ k = 1 THEN c.ID ELSE "",
                                        IF split = "named" /\ k = 1 THEN c.Name ELSE "",
                                        <<c.Args[k]>>)>>)]

RECURSIVE CallsDeltas(_, _, _)
CallsDeltas(calls, i, split) ==
    IF i > Len(calls) THEN <<>>
    ELSE CallDeltas(calls[i], i, split) \o CallsDeltas(calls, i + 1, split)

\* the turn as deltas of a provider stream that cuts arguments this way
SplitDeltas(turn, split) ==
    [i \in 1..Len(turn.frags) |-> Delta(turn.frags[i], <<>>)]
    \o CallsDeltas(turn.calls, 1, split)

----------------------------------------------------------------------------
(* The input lifecycle of StreamText: toolInputLifecycle.  byIndex is kept  *)
(* as the list of its entries in order of first arrival, indexByID as the   *)
(* list of its writes (the last one for an id counts); events are the hook  *)
(* calls of the last onDelta.                                               *)

\* newToolInputLifecycle
NewToolInputLifecycle == [byIndex |-> <<>>, indexByID |-> <<>>, events |-> <<>>]

\* onToolCallDelta; hooksOn: the tools have OnInputStart and OnInputDelta
OnToolCallDelta(l, tc, tools, turn, hooksOn) ==
    LET k0 == IF \E j \in 1..Len(l.byIndex) : l.byIndex[j].index = tc.Index
              THEN CHOOSE j \in 1..Len(l.byIndex) : l.byIndex[j].index = tc.Index
              ELSE 0
        byIndex1 == IF k0 = 0
                    THEN Append(l.byIndex, [index |-> tc.Index, id |-> "", name |-> "",
                                            started |-> FALSE, buffer |-> <<>>])
                    ELSE l.byIndex
        k == IF k0 = 0 THEN Len(byIndex1) ELSE k0
        st == byIndex1[k]
        id == IF tc.ID # "" THEN tc.ID ELSE st.id
        name == IF tc.Name # "" THEN tc.Name ELSE st.name
        indexByID1 == IF tc.ID # ""
                      THEN Append(l.indexByID, [id |-> tc.ID, index |-> tc.Index])
                      ELSE l.indexByID
        ok == name # "" /\ FindTool(tools, name) # 0
        start == IF st.started THEN <<>>
                 ELSE <<HookEv("input_start", turn, tc.Index + 1, name, id, tc.Index, <<>>)>>
                      \o (IF st.buffer # <<>>
                          THEN <<HookEv("input_delta", turn, tc.Index + 1, name, id,
                                        tc.Index, st.buffer)>>
                          ELSE <<>>)
        delta == IF tc.ArgumentsDelta # <<>>
                 THEN <<HookEv("input_delta", turn, tc.Index + 1, name, id, tc.Index,
                               tc.ArgumentsDelta)>>
                 ELSE <<>>
    IN IF ~ok
       THEN [l EXCEPT !.byIndex =
                        [byIndex1 EXCEPT ![k] =
                           [st EXCEPT !.id = id, !.name = name,
                                      !.buffer = IF ~st.started
                                                 THEN st.buffer \o tc.ArgumentsDelta
                                                 ELSE st.buffer]],
                      !.indexByID = indexByID1]
       ELSE [l EXCEPT !.byIndex =
                        [byIndex1 EXCEPT ![k] =
                           [st EXCEPT !.id = id, !.name = name, !.started = TRUE]],
                      !.indexByID = indexByID1,
                      !.events = IF hooksOn THEN l.events \o start \o delta
                                 ELSE l.events]

\* onDelta: `for _, tc := range d.ToolCalls`
RECURSIVE OnDeltaFrom(_, _, _, _, _)
OnDeltaFrom(l, toolCalls, tools, turn, hooksOn) ==
    IF toolCalls = <<>> THEN l
    ELSE OnDeltaFrom(OnToolCallDelta(l, Head(toolCalls), tools, turn, hooksOn),
                     Tail(toolCalls), tools, turn, hooksOn)

----------------------------------------------------------------------------
(* The request and the caller's hooks. *)

Model(provider, name) == [Provider |-> provider, Name |-> name]
ReqModel == Model("p1", "m1")
NoModel == Model("", "")

BaseMessages == <<UserMsg(<<"q">>)>>

\* ToolLoop.StopWhen, a pure function of the steps so far
StopWhenPolicies == {"nil", "never", "always", "atTwo"}
StopWhenFn(policy, steps) ==
    CASE policy = "always" -> TRUE
      [] policy = "atTwo" -> Len(steps) >= 2
      [] OTHER -> FALSE

\* req.PrepareStep, a pure function of the step number
PrepareStepPolicies == {"nil", "active", "msgs", "model", "mismatch"}
PrepareOut(err, model, msgsSet, msgs, active) ==
    [err |-> err, Model |-> model, MessagesSet |-> msgsSet, Messages |-> msgs,
     ActiveTools |-> active]
CallerPrepareStep(policy, stepNumber) ==
    CASE policy = "active" /\ stepNumber = 0 ->
             PrepareOut(NoErr, NoModel, FALSE, <<>>, <<"echo">>)
      [] policy = "active" /\ stepNumber = 1 ->
             PrepareOut(NoErr, NoModel, FALSE, <<>>, <<"echo", "add">>)
      [] policy = "msgs" /\ stepNumber = 1 ->
             PrepareOut(NoErr, NoModel, TRUE, <<UserMsg(<<"rewritten">>)>>, <<>>)
      [] policy = "msgs" /\ stepNumber = 2 ->
             PrepareOut(NoErr, NoModel, TRUE, <<>>, <<>>)
      [] policy = "model" /\ stepNumber = 0 ->
             PrepareOut(NoErr, Model("p1", "m2"), FALSE, <<>>, <<>>)
      [] policy = "mismatch" /\ stepNumber = 1 ->
             PrepareOut(NoErr, Model("p2", "mX"), FALSE, <<>>, <<>>)
      [] OTHER -> PrepareOut(NoErr, NoModel, FALSE, <<>>, <<>>)

\* the wrapper without the comparison of the providers
PrepareStepAnyProvider(policy, stepNumber) ==
    LET res == CallerPrepareStep(policy, stepNumber)
    IN PrepareOut(NoErr, res.Model.Name,
                  res.MessagesSet /\ Len(res.Messages) # 0, res.Messages,
                  res.ActiveTools)

\* opts.PrepareStep as GenerateText / StreamText wrap it: the result carries
\* the model's name, or the provider-mismatch error; the messages go through
\* toProviderMessages, which turns a list without messages into nil
PrepareStep(policy, stepNumber) ==
    LET res == CallerPrepareStep(policy, stepNumber)
    IN IF res.Model # NoModel /\ res.Model.Provider # ReqModel.Provider
       THEN PrepareOut(Err("ProviderMismatch", "", "", 0), "", FALSE, <<>>, <<>>)
       ELSE PrepareOut(NoErr, res.Model.Name,
                       res.MessagesSet /\ Len(res.Messages) # 0, res.Messages,
                       res.ActiveTools)

\* no filtering: every declared tool is sent
FilterToolsAll(tools, activeTools) == tools

\* the declared tools whose names are allowed, in declaration order
FilterTools(tools, activeTools) ==
    IF Len(activeTools) > 0
    THEN SelectSeq(tools, LAMBDA td : \E i \in 1..Len(activeTools) : activeTools[i] = td.Name)
    ELSE tools

Request(model, messages, tools) ==
    [Model |-> model, Messages |-> messages, Tools |-> ToolNames(tools)]

Step(stepNumber, response, calls, results, activeTools) ==
    [StepNumber |-> stepNumber, Response |-> response, ToolCalls |-> calls,
     ToolResults |-> results, ActiveTools |-> activeTools]

\* fromProviderMessage, messagesFromProviderMessages
FromProviderMessage(pm) == Msg(pm.Role, pm.Text, pm.Calls, pm.ToolCallID, pm.Name)
MessagesFromProviderMessages(msgs) ==
    [k \in 1..Len(msgs) |-> FromProviderMessage(msgs[k])]

\* stepFromProviderStep, stepsFromProviderSteps
StepFromProviderStep(st) ==
    [StepNumber |-> st.StepNumber, Text |-> st.Response.Message.Text,
     Message |-> FromProviderMessage(st.Response.Message),
     ToolCalls |-> st.ToolCalls,
     ToolResults |-> MessagesFromProviderMessages(st.ToolResults),
     FinishReason |-> st.Response.FinishReason, Usage |-> st.Response.Usage,
     ActiveTools |-> st.ActiveTools]
StepsFromProviderSteps(steps) ==
    [k \in 1..Len(steps) |-> StepFromProviderStep(steps[k])]

\* the closures of the TextStream that StreamText returns: cachedSteps and
\* cachedResp (nil is the empty sequence), and what Steps() and Response()
\* returned last, with when they were asked
NoView ==
    [cachedSteps |-> <<>>, cachedResp |-> <<>>, steps |-> <<>>, resp |-> <<>>,
     stepsAtEnd |-> FALSE, respAtEnd |-> FALSE, stepsEarly |-> FALSE,
     respEarly |-> FALSE]

\* context.Context: the time left to its deadline (0: none), and what has
\* ended it
Ctx(deadline, cancelled, elapsed, parentDone) ==
    [deadline |-> deadline, cancelled |-> cancelled, elapsed |-> elapsed,
     parentDone |-> parentDone]
\* context.Background()
Background == Ctx(0, FALSE, FALSE, FALSE)
\* no stream has been built
NoCtx == Ctx(-1, FALSE, FALSE, FALSE)
\* ctx.Done() is closed
CtxDone(c) == c.cancelled \/ c.elapsed \/ c.parentDone

\* applyTimeout: the context and the cancel function
ApplyTimeout(ctx, timeout) ==
    IF timeout <= 0 THEN [ctx |-> ctx, cancel |-> "noop"]
    ELSE [ctx |-> [ctx EXCEPT !.deadline = timeout], cancel |-> "cancel"]

\* maxIterations <= 0 -> 5
EffectiveMaxIterations(n) == IF n <= 0 THEN DefaultMaxIterations ELSE n

----------------------------------------------------------------------------
(* Blocking engine: text.Generate.  The loop's locals are a record; reqs   *)
(* and log record the provider requests and the events of the run.         *)

GenResult(resp, agg, steps, responseMessages) ==
    [Response |-> resp, AggregatedUsage |-> agg, Steps |-> steps,
     ResponseMessages |-> responseMessages]

\* GenerateResult{}
ZeroResult == GenResult(ZeroResponse, ZeroUsage, <<>>, <<>>)

GenStart ==
    [pc |-> "run", iter |-> 0, messages |-> BaseMessages, model |-> ReqModel.Name,
     agg |-> ZeroUsage, steps |-> <<>>, responseMessages |-> <<>>,
     reqs |-> <<>>, log |-> <<>>, err |-> NoErr, res |-> ZeroResult]

GenIdle == [GenStart EXCEPT !.pc = "idle"]

\* return GenerateResult{}, err
GenFail(st, err, reqs, log) ==
    [st EXCEPT !.pc = "done", !.err = err, !.res = ZeroResult, !.reqs = reqs, !.log = log]

\* return GenerateResult{Response: resp, ...}, nil
GenReturn(st, resp, agg, steps, responseMessages, messages, reqs, log) ==
    [st EXCEPT !.pc = "done", !.err = NoErr,
               !.res = GenResult(resp, agg, steps, responseMessages),
               !.agg = agg, !.steps = steps, !.responseMessages = responseMessages,
               !.messages = messages, !.reqs = reqs, !.log = log]

\* the hook called before the tool results are put into the step
StepFinishLogBeforeResults(o, step) ==
    IF o.OnStepFinish
    THEN <<[ev |-> "stepfinish", turn |-> step.StepNumber, idx |-> 0,
            step |-> [step EXCEPT !.ToolResults = <<>>]]>>
    ELSE <<>>

\* `if opts.OnStepFinish != nil { opts.OnStepFinish(StepFinishEvent{Step: step}) }`
StepFinishLog(o, step) ==
    IF o.OnStepFinish
    THEN <<[ev |-> "stepfinish", turn |-> step.StepNumber, idx |-> 0, step |-> step]>>
    ELSE <<>>

\* the call of opts.StopWhen, with what it returned
StopWhenLog(o, stepNumber, steps) ==
    IF o.StopWhen # "nil"
    THEN <<Ev("stopwhen", stepNumber, IF StopWhenFn(o.StopWhen, steps) THEN 1 ELSE 0)>>
    ELSE <<>>

\* off by one: one pass too many
GenLoopGuardInclusive(iter, max) == iter <= max

\* `iter < maxIterations`
GenLoopGuard(iter, max) == iter < max

\* the early return left out
GenIsTerminalNever(calls) == FALSE

\* `if len(calls) == 0`: the terminal step
GenIsTerminal(calls) == Len(calls) = 0

\* StopWhen's answer ignored
GenStopWhenIgnored(o, steps) == FALSE

\* `if opts.StopWhen != nil { if opts.StopWhen(...) {`
GenStopWhen(o, steps) == o.StopWhen # "nil" /\ StopWhenFn(o.StopWhen, steps)

\* one pass of `for iter := 0; iter < maxIterations; iter++`
GenIter(st, o, scr, tools) ==
    LET stepNumber == st.iter
        prep == IF o.PrepareStep # "nil" THEN PrepareStep(o.PrepareStep, stepNumber)
                ELSE PrepareOut(NoErr, "", FALSE, <<>>, <<>>)
        logP == IF o.PrepareStep # "nil"
                THEN st.log \o <<Ev("prepare", stepNumber, 0)>> ELSE st.log
    IN
    IF prep.err # NoErr THEN GenFail(st, prep.err, st.reqs, logP)
    ELSE
      LET model == IF prep.Model # "" THEN prep.Model ELSE st.model
          stepMessages == IF prep.MessagesSet THEN prep.Messages ELSE st.messages
          activeTools == prep.ActiveTools
          callTools == FilterTools(tools, activeTools)
          reqs == Append(st.reqs, Request(model, stepMessages, callTools))
          turn == TurnAt(scr, Len(reqs))
          logG == logP \o <<Ev("provider_start", stepNumber, 0),
                            Ev("provider_end", stepNumber, 0)>>
      IN
      IF turn.kind = "error"
      THEN GenFail([st EXCEPT !.model = model], Err("Provider", "", "", 0), reqs, logG)
      ELSE
        LET resp == FinalResponse(turn)
            agg == AddUsage(st.agg, resp.Usage)
            messages1 == Append(stepMessages, resp.Message)
            responseMessages1 == Append(st.responseMessages, resp.Message)
            calls == ExtractToolCalls(resp.Message)
        IN
        IF GenIsTerminal(calls)
        THEN GenReturn([st EXCEPT !.model = model], resp, agg,
                       Append(st.steps, Step(stepNumber, resp, calls, <<>>, activeTools)),
                       responseMessages1, messages1, reqs,
                       logG \o StepFinishLog(o, Step(stepNumber, resp, calls, <<>>,
                                                     activeTools)))
        ELSE
          LET out == ExecuteToolCalls(tools, calls, stepNumber, [on |-> FALSE, indexByID |-> <<>>])
              logE == logG \o out.log
          IN
          IF out.err # NoErr
          THEN GenFail([st EXCEPT !.model = model], out.err, reqs, logE)
          ELSE
            LET messages2 == messages1 \o out.results
                responseMessages2 == responseMessages1 \o out.results
                steps == Append(st.steps,
                                Step(stepNumber, resp, calls, out.results, activeTools))
                logS == logE \o StepFinishLog(o, steps[Len(steps)])
            IN
            IF GenStopWhen(o, steps)
            THEN GenReturn([st EXCEPT !.model = model], resp, agg, steps,
                           responseMessages2, messages2, reqs,
                           logS \o StopWhenLog(o, stepNumber, steps))
            ELSE [st EXCEPT !.iter = st.iter + 1, !.model = model,
                            !.messages = messages2, !.agg = agg, !.steps = steps,
                            !.responseMessages = responseMessages2, !.reqs = reqs,
                            !.log = logS \o StopWhenLog(o, stepNumber, steps)]

\* the loop, and the error after it
RECURSIVE GenLoop(_, _, _, _)
GenLoop(st, o, scr, tools) ==
    IF st.pc = "done" THEN st
    ELSE IF GenLoopGuard(st.iter, EffectiveMaxIterations(o.MaxIterations))
      THEN GenLoop(GenIter(st, o, scr, tools), o, scr, tools)
    ELSE GenFail(st, Err("MaxIterations", "", "", EffectiveMaxIterations(o.MaxIterations)),
                 st.reqs, st.log)

\* text.Generate, from its call to its return
Generate ==
    /\ gen.pc = "idle"
    /\ gen' = GenLoop(GenStart, opts, script, reqTools)
    /\ UNCHANGED <<script, opts, reqTools, strm, obj, ostrm, dec, agent>>

----------------------------------------------------------------------------
(* Streaming engine: text.Stream.  cur = 0 is a nil provider stream,       *)
(* otherwise the number of the open turn; pos counts the deltas read.      *)

StreamStart ==
    [stepNumber |-> 0, messages |-> BaseMessages, model |-> ReqModel.Name,
     cur |-> 0, pos |-> 0, curDelta |-> <<>>,
     finalSet |-> FALSE, final |-> ZeroResponse,
     aggUsage |-> ZeroUsage, steps |-> <<>>, responseMessages |-> <<>>,
     curActiveTools |-> <<>>, err |-> NoErr,
     reqs |-> <<>>, log |-> <<>>, out |-> <<>>, ret |-> "none", nexts |-> 0,
     split |-> "whole", hooksOn |-> TRUE, life |-> NewToolInputLifecycle,
     ctx |-> Background, view |-> NoView]

\* return false / return true
StreamRet(st, b) == [st EXCEPT !.ret = IF b THEN "true" ELSE "false"]

\* Stream.start
StreamOpen(st, o, scr, tools) ==
    LET prep == IF o.PrepareStep # "nil" THEN PrepareStep(o.PrepareStep, st.stepNumber)
                ELSE PrepareOut(NoErr, "", FALSE, <<>>, <<>>)
        logP == IF o.PrepareStep # "nil"
                THEN st.log \o <<Ev("prepare", st.stepNumber, 0)>> ELSE st.log
    IN
    IF prep.err # NoErr THEN [st EXCEPT !.err = prep.err, !.log = logP]
    ELSE
      LET model == IF prep.Model # "" THEN prep.Model ELSE st.model
          messages == IF prep.MessagesSet THEN prep.Messages ELSE st.messages
          activeTools == prep.ActiveTools
          callTools == FilterTools(tools, activeTools)
          reqs == Append(st.reqs, Request(model, messages, callTools))
          \* s.p.Stream(s.ctx, req): a request under a context that is done fails
          turn == IF CtxDone(st.ctx) THEN ErrorTurn ELSE TurnAt(scr, Len(reqs))
          st1 == [st EXCEPT !.model = model, !.messages = messages,
                            !.curActiveTools = activeTools, !.reqs = reqs,
                            !.log = logP \o <<Ev("provider_start", st.stepNumber, 0)>>]
      IN
      IF turn.kind = "error" /\ Len(turn.frags) = 0
      THEN [st1 EXCEPT !.err = Err("Provider", "", "", 0),
                       !.log = st1.log \o <<Ev("provider_end", st.stepNumber, 0)>>]
      ELSE [st1 EXCEPT !.cur = Len(reqs), !.pos = 0]

\* `if len(calls) == 0`: the terminal step
StreamIsTerminal(calls) == Len(calls) = 0

\* `if s.opts.StopWhen != nil { if s.opts.StopWhen(...) {`
StreamStopWhen(o, steps) == o.StopWhen # "nil" /\ StopWhenFn(o.StopWhen, steps)

\* off by one: the cap checked with >
StreamCapReachedStrict(stepNumber, max) == stepNumber > max

\* `s.stepNumber >= s.opts.MaxIterations`
StreamCapReached(stepNumber, max) == stepNumber >= max

\* the part of Stream.Next after the provider stream has ended with a final
\* response; the result has ret = "none" when the loop goes on
StreamTurnEnd(st, final, o, tools) ==
    LET aggUsage == AddUsage(st.aggUsage, final.Usage)
        messages1 == Append(st.messages, final.Message)
        responseMessages1 == Append(st.responseMessages, final.Message)
        calls == ExtractToolCalls(final.Message)
        st1 == [st EXCEPT !.cur = 0, !.pos = 0, !.aggUsage = aggUsage,
                          !.messages = messages1,
                          !.responseMessages = responseMessages1]
    IN
    IF StreamIsTerminal(calls)
    THEN StreamRet([st1 EXCEPT
                      !.steps = Append(st.steps, Step(st.stepNumber, final, calls, <<>>,
                                                      st.curActiveTools)),
                      !.log = st.log \o StepFinishLog(o, Step(st.stepNumber, final, calls,
                                                              <<>>, st.curActiveTools)),
                      !.finalSet = TRUE, !.final = final], FALSE)
    ELSE
      LET outD == ExecuteToolCalls(tools, calls, st.stepNumber,
                                   [on |-> st.hooksOn, indexByID |-> st.life.indexByID])
          logE == st.log \o outD.log
      IN
      IF outD.err # NoErr
      THEN StreamRet([st1 EXCEPT !.err = outD.err, !.log = logE], FALSE)
      ELSE
        LET steps == Append(st.steps, Step(st.stepNumber, final, calls, outD.results,
                                           st.curActiveTools))
            st2 == [st1 EXCEPT !.messages = messages1 \o outD.results,
                               !.responseMessages = responseMessages1 \o outD.results,
                               !.steps = steps,
                               !.log = logE \o StepFinishLog(o, steps[Len(steps)])]
        IN
        IF StreamStopWhen(o, steps)
        THEN StreamRet([st2 EXCEPT !.log = st2.log \o StopWhenLog(o, st.stepNumber, steps),
                                   !.finalSet = TRUE, !.final = final], FALSE)
        ELSE
          LET st3 == [st2 EXCEPT !.stepNumber = st.stepNumber + 1,
                                 !.log = st2.log \o StopWhenLog(o, st.stepNumber, steps)]
          IN
          IF StreamCapReached(st3.stepNumber, EffectiveMaxIterations(o.MaxIterations))
          THEN StreamRet([st3 EXCEPT !.err = Err("MaxIterations", "", "",
                                                EffectiveMaxIterations(o.MaxIterations))],
                         FALSE)
          ELSE st3

\* every delta handed to the consumer, with or without text
StreamDeltaIsEmptyNever(text) == FALSE

\* `if s.curDelta == "" { continue }`
StreamDeltaIsEmpty(text) == text = <<>>

\* the `for` loop of Stream.Next
RECURSIVE StreamLoop(_, _, _, _)
StreamLoop(st, o, scr, tools) ==
    IF st.cur = 0
    THEN LET st1 == StreamOpen(st, o, scr, tools)
         IN IF st1.err # NoErr THEN StreamRet(st1, FALSE)
            ELSE StreamLoop(st1, o, scr, tools)
    ELSE
      \* s.cur.Next(): the read fails once the context is done
      LET turn == IF CtxDone(st.ctx) THEN ErrorTurn ELSE TurnAt(scr, st.cur)
          ds == SplitDeltas(turn, st.split)
      IN
      IF st.pos < Len(ds)
      THEN LET d == ds[st.pos + 1]
               life == OnDeltaFrom([st.life EXCEPT !.events = <<>>], d.ToolCalls, tools,
                                   st.stepNumber, st.hooksOn)
               st1 == [st EXCEPT !.pos = st.pos + 1, !.curDelta = d.Text,
                                 !.life = life, !.log = st.log \o life.events]
           IN IF StreamDeltaIsEmpty(d.Text) THEN StreamLoop(st1, o, scr, tools)
              ELSE StreamRet([st1 EXCEPT !.out = Append(st.out, d.Text)], TRUE)
      ELSE
        LET stE == [st EXCEPT !.log = st.log \o <<Ev("provider_end", st.stepNumber, 0)>>]
        IN
        IF turn.kind = "error"
        THEN StreamRet([stE EXCEPT !.err = Err("Provider", "", "", 0)], FALSE)
        ELSE IF turn.kind = "nofinal"
        THEN StreamRet([stE EXCEPT !.cur = 0, !.pos = 0, !.finalSet = TRUE,
                                   !.final = [ZeroResponse EXCEPT
                                                !.Message = AssistantMsg(<<>>, <<>>)]],
                       FALSE)
        ELSE
          LET st1 == StreamTurnEnd(stE, FinalResponse(turn), o, tools)
          IN IF st1.ret # "none" THEN st1 ELSE StreamLoop(st1, o, scr, tools)

\* Stream.Next
StreamNextOp(st, o, scr, tools) ==
    IF st.err # NoErr \/ st.finalSet THEN StreamRet(st, FALSE)
    ELSE StreamLoop([st EXCEPT !.curDelta = <<>>, !.ret = "none"], o, scr, tools)

\* the number of Next calls counted after the stream is exhausted
MaxIdleNext == 1

\* one call of Stream.Next by the consumer
StreamNext ==
    /\ strm.ret # "false" \/ strm.nexts < MaxIdleNext
    /\ strm' = [StreamNextOp(strm, opts, script, reqTools) EXCEPT
                  !.nexts = IF strm.ret = "false" THEN strm.nexts + 1 ELSE strm.nexts]
    /\ UNCHANGED <<script, opts, reqTools, gen, obj, ostrm, dec, agent>>

----------------------------------------------------------------------------
(* Object enforcer: object.Generate with generateJSONOnly, as called by    *)
(* GenerateObject.  The target type holds an integer: the schema accepts a *)
(* number, decoding accepts the integer only.                              *)

\* correctionPrompt keeps at most this much of the invalid JSON
CorrectionMax == 4000

\* schema.Validate against the request's schema
SchemaValidate(raw) == ValidateJSONAgainstSchema(SchemaNumber, raw)

\* json.Unmarshal(raw, &obj)
DecodeFails(raw) == ~JsonValid(raw) \/ raw[2] # "i"
Decode(raw) == <<"obj", raw[2]>>
NoObject == <<>>

PrependSystemText == <<"must-call", ReturnToolName>>
JSONOnlySystemText == <<"json-only">>
\* prependSystem / prependJSONOnlySystem
PrependSystem(msgs) == <<SystemMsg(PrependSystemText)>> \o msgs
PrependJSONOnlySystem(msgs) == <<SystemMsg(JSONOnlySystemText)>> \o msgs

\* mustCallPrompt / correctionPrompt, as system messages
MustCallPrompt == SystemMsg(<<"did-not-call", ReturnToolName>>)
Excerpt(raw) ==
    IF Len(raw) > CorrectionMax THEN SubSeq(raw, 1, CorrectionMax) \o <<"...">> ELSE raw
CorrectionPrompt(why, raw) == SystemMsg(<<"invalid", why>> \o Excerpt(raw))

ReturnToolDef == Tool(ReturnToolName, SchemaNumber, "nil")

\* toolNameCollides
ToolNameCollides(tools, name) == \E i \in 1..Len(tools) : tools[i].Name = name

\* no return call is ever seen
HasReturnCallNever(m) == FALSE

\* only a return call in first position is seen
HasReturnCallFirstOnly(m) == m.Calls # <<>> /\ m.Calls[1].Name = ReturnToolName

\* findReturnArgs: the arguments of the first call of the return tool
HasReturnCall(m) == \E i \in 1..Len(m.Calls) : m.Calls[i].Name = ReturnToolName
FindReturnArgs(m) ==
    m.Calls[CHOOSE i \in 1..Len(m.Calls) :
               /\ m.Calls[i].Name = ReturnToolName
               /\ \A j \in 1..(i - 1) : m.Calls[j].Name # ReturnToolName].Args

\* filterNonReturn
FilterNonReturn(calls) == SelectSeq(calls, LAMBDA c : c.Name # ReturnToolName)

\* extractText
ExtractText(m) == m.Text

ObjResult(object, raw, last, usage) ==
    [Object |-> object, Raw |-> raw, LastResponse |-> last, Usage |-> usage]
ZeroObjResult == ObjResult(NoObject, <<>>, ZeroResponse, ZeroUsage)

\* the turns of an object run
CRet(v) == Call("r1", ReturnToolName, JsonDoc(v))
RetValidTurn   == Turn("resp", <<>>, <<CRet("i")>>, Usage(1, 1), "tool_calls")
RetInvalidTurn == Turn("resp", <<>>, <<CRet("s")>>, Usage(1, 2), "tool_calls")
RetUndecTurn   == Turn("resp", <<>>, <<CRet("f")>>, Usage(2, 1), "tool_calls")
MixedTurn      == Turn("resp", <<>>, <<COk1, CRet("i")>>, Usage(2, 2), "tool_calls")
JsonTextTurn   == Turn("resp", <<JsonDoc("i")>>, <<>>, Usage(1, 3), "stop")
BadTextTurn    == Turn("resp", <<JsonDoc("s")>>, <<>>, Usage(3, 1), "stop")
UnsupportedTurn == Turn("unsupported", <<>>, <<>>, ZeroUsage, "")
ObjTurns ==
    {RetValidTurn, RetInvalidTurn, RetUndecTurn, MixedTurn, JsonTextTurn, BadTextTurn,
     OneCallTurn, NopeTurn, UnsupportedTurn, ErrorTurn}

\* the turns after which a run can go on: a retry, a tool turn, the switch
ObjContTurns ==
    {RetInvalidTurn, RetUndecTurn, JsonTextTurn, BadTextTurn, OneCallTurn, UnsupportedTurn}

\* longest object script
MaxObjScript == 3
ObjScripts ==
    {pre \o <<t>> : pre \in SeqsUpTo(ObjContTurns, MaxObjScript - 1), t \in ObjTurns}

\* the model keeps answering with its last turn
ObjTurnAt(scr, n) == IF n <= Len(scr) THEN scr[n] ELSE scr[Len(scr)]

\* object.Generate's locals before its loop; reqs are the provider's
\* requests so far, execCalls the call lists handed to the executor
ObjRunFrom(messages, reqs) ==
    [pc |-> "run", mode |-> "tools", iter |-> 0,
     messages |-> PrependSystem(messages), retryMessages |-> <<>>,
     retryCount |-> 0, attempt |-> 0, agg |-> ZeroUsage, last |-> ZeroResponse,
     reqs |-> reqs, execCalls |-> <<>>, log |-> <<>>, err |-> NoErr,
     res |-> ZeroObjResult]

ObjRunStart == ObjRunFrom(BaseMessages, <<>>)

ObjDone(st, res, err) == [st EXCEPT !.pc = "done", !.res = res, !.err = err]

\* the validation-failure branch without the non-strict return
ObjInvalidAlwaysStrict(st, o, why, raw, partial) ==
    IF st.retryCount >= o.MaxRetries
      THEN ObjDone(st, ZeroObjResult, Err("InvalidJSON", "", "", 0))
    ELSE [st EXCEPT !.retryCount = st.retryCount + 1,
                    !.retryMessages = <<CorrectionPrompt(why, raw)>>,
                    !.iter = st.iter + 1]

\* the validation-failure branch of object.Generate: return, fail or retry
ObjInvalid(st, o, why, raw, partial) ==
    IF ~o.Strict THEN ObjDone(st, partial, Err(why, "", "", 0))
    ELSE IF st.retryCount >= o.MaxRetries
      THEN ObjDone(st, ZeroObjResult, Err("InvalidJSON", "", "", 0))
    ELSE [st EXCEPT !.retryCount = st.retryCount + 1,
                    !.retryMessages = <<CorrectionPrompt(why, raw)>>,
                    !.iter = st.iter + 1]

\* the branch for a turn without a usable return call
ObjNoReturn(st, o, partial) ==
    IF ~o.Strict THEN ObjDone(st, partial, Err("NoReturnCall", "", "", 0))
    ELSE IF st.retryCount >= o.MaxRetries
      THEN ObjDone(st, ZeroObjResult, Err("NoReturnCall", "", "", 0))
    ELSE [st EXCEPT !.retryCount = st.retryCount + 1,
                    !.retryMessages = <<MustCallPrompt>>,
                    !.iter = st.iter + 1]

\* one attempt of generateJSONOnly's loop; msgs are kept in st.messages
JSONOnlyIter(st, o, scr) ==
    LET reqs == Append(st.reqs, Request(ReqModel.Name, st.messages, <<>>))
        turn == ObjTurnAt(scr, Len(reqs))
        logG == st.log \o <<Ev("provider_start", Len(reqs), 0),
                            Ev("provider_end", Len(reqs), 0)>>
        st0 == [st EXCEPT !.reqs = reqs, !.log = logG]
    IN
    IF turn.kind # "resp"
    THEN ObjDone(st0, ZeroObjResult,
                 Err(IF turn.kind = "unsupported" THEN "ToolsUnsupported" ELSE "Provider",
                     "", "", 0))
    ELSE
      LET resp == FinalResponse(turn)
          agg == AddUsage(st.agg, resp.Usage)
          raw == ExtractText(resp.Message)
          st1 == [st0 EXCEPT !.last = resp, !.agg = agg]
          v == SchemaValidate(raw)
          why == IF v # "ok" THEN v ELSE "decode"
      IN
      IF v # "ok" \/ DecodeFails(raw)
      THEN IF ~o.Strict
           THEN ObjDone(st1, ObjResult(NoObject, raw, resp, agg), Err(why, "", "", 0))
           ELSE IF st.attempt = o.MaxRetries
             THEN ObjDone(st1, ZeroObjResult, Err("InvalidJSON", "", "", 0))
           ELSE [st1 EXCEPT !.messages = Append(st.messages, CorrectionPrompt(why, raw)),
                            !.attempt = st.attempt + 1]
      ELSE ObjDone(st1, ObjResult(Decode(raw), raw, resp, agg), NoErr)

\* a switch that carries the retries already used into JSON-only mode
JSONOnlyStartKeepCount(st, messages) ==
    [st EXCEPT !.mode = "json", !.messages = PrependJSONOnlySystem(messages),
               !.attempt = st.retryCount, !.agg = ZeroUsage, !.last = ZeroResponse]

\* generateJSONOnly's first lines: its own messages, usage and last response
JSONOnlyStart(st, messages) ==
    [st EXCEPT !.mode = "json", !.messages = PrependJSONOnlySystem(messages),
               !.attempt = 0, !.agg = ZeroUsage, !.last = ZeroResponse]

\* one pass of object.Generate's loop
ObjIter(st, o, scr, tools) ==
    LET toolsDefs == Append(tools, ReturnToolDef)
        reqs == Append(st.reqs,
                       Request(ReqModel.Name, st.messages \o st.retryMessages, toolsDefs))
        turn == ObjTurnAt(scr, Len(reqs))
        logG == st.log \o <<Ev("provider_start", Len(reqs), 0),
                            Ev("provider_end", Len(reqs), 0)>>
        st0 == [st EXCEPT !.reqs = reqs, !.log = logG]
    IN
    IF turn.kind = "unsupported" THEN JSONOnlyStart(st0, st.messages)
    ELSE IF turn.kind # "resp" THEN ObjDone(st0, ZeroObjResult, Err("Provider", "", "", 0))
    ELSE
      LET resp == FinalResponse(turn)
          agg == AddUsage(st.agg, resp.Usage)
          st1 == [st0 EXCEPT !.last = resp, !.agg = agg,
                             !.messages = Append(st.messages, resp.Message)]
          calls == ExtractToolCalls(resp.Message)
          nonReturn == FilterNonReturn(calls)
      IN
      IF HasReturnCall(resp.Message)
      THEN LET raw == FindReturnArgs(resp.Message)
               v == SchemaValidate(raw)
           IN IF v # "ok"
              THEN ObjInvalid(st1, o, v, raw, ObjResult(NoObject, raw, resp, agg))
              ELSE IF DecodeFails(raw)
              THEN ObjInvalid(st1, o, "decode", raw, ObjResult(NoObject, raw, resp, agg))
              ELSE ObjDone(st1, ObjResult(Decode(raw), raw, resp, agg), NoErr)
      ELSE IF Len(calls) = 0 \/ Len(nonReturn) = 0
      THEN ObjNoReturn(st1, o, ObjResult(NoObject, <<>>, resp, agg))
      ELSE
        LET outD == ExecuteToolCalls(tools, nonReturn, Len(reqs),
                                     [on |-> FALSE, indexByID |-> <<>>])
            st2 == [st1 EXCEPT !.log = logG \o outD.log,
                               !.execCalls = Append(st.execCalls, nonReturn)]
        IN
        IF outD.err # NoErr THEN ObjDone(st2, ZeroObjResult, outD.err)
        ELSE [st2 EXCEPT !.messages = st1.messages \o outD.results,
                         !.retryMessages = <<>>, !.iter = st.iter + 1]

RECURSIVE ObjLoop(_, _, _, _)
ObjLoop(st, o, scr, tools) ==
    IF st.pc = "done" THEN st
    ELSE IF st.mode = "json" THEN ObjLoop(JSONOnlyIter(st, o, scr), o, scr, tools)
    ELSE IF st.iter < EffectiveMaxIterations(o.MaxIterations)
      THEN ObjLoop(ObjIter(st, o, scr, tools), o, scr, tools)
    ELSE ObjDone(st, ZeroObjResult,
                 Err("MaxIterations", "", "", EffectiveMaxIterations(o.MaxIterations)))

\* object.Generate on a request with these tools and messages, the provider
\* having answered reqs before
ObjectGenerateReq(o, scr, tools, messages, reqs) ==
    LET o1 == [o EXCEPT !.MaxRetries = IF o.MaxRetries < 0 THEN 0 ELSE o.MaxRetries]
    IN IF ToolNameCollides(tools, ReturnToolName)
       THEN ObjDone(ObjRunFrom(messages, reqs), ZeroObjResult, Err("Collision", "", "", 0))
       ELSE ObjLoop(ObjRunFrom(messages, reqs), o1, scr, tools)

\* object.Generate as GenerateObject calls it
ObjectGenerate(o, scr, tools) == ObjectGenerateReq(o, scr, tools, BaseMessages, <<>>)

\* GenerateObject's mapping of object.Generate's return
ObjApi(st, o) ==
    IF st.err = NoErr
    THEN [returned |-> "resp", err |-> NoErr, ValidationError |-> NoErr,
          Object |-> st.res.Object, RawJSON |-> st.res.Raw, Usage |-> st.res.Usage]
    ELSE IF st.err.kind = "Provider" \/ o.Strict
    THEN [returned |-> "nil", err |-> st.err, ValidationError |-> NoErr,
          Object |-> NoObject, RawJSON |-> <<>>, Usage |-> ZeroUsage]
    ELSE [returned |-> "resp", err |-> NoErr, ValidationError |-> st.err,
          Object |-> st.res.Object, RawJSON |-> st.res.Raw, Usage |-> st.res.Usage]

ObjIdle ==
    [pc |-> "idle", Strict |-> TRUE, MaxRetries |-> 0, MaxIterations |-> 0,
     script |-> <<>>, tools |-> <<>>, run |-> ObjRunStart,
     api |-> ObjApi(ObjRunStart, [Strict |-> TRUE])]

\* GenerateObject, from its call to its return
GenerateObject ==
    /\ obj.pc = "ready"
    /\ LET run == ObjectGenerate(obj, obj.script, obj.tools)
       IN obj' = [obj EXCEPT !.pc = "done", !.run = run, !.api = ObjApi(run, obj)]
    /\ UNCHANGED <<script, opts, reqTools, gen, strm, ostrm, dec, agent>>

----------------------------------------------------------------------------
(* Streaming object enforcer: object.Stream, as StreamObject builds it.     *)

NoPartial == <<>>

\* NewStream
ObjStreamNew(strict, maxRetries, maxIterations, scr, tools) ==
    [pc |-> "open", Strict |-> strict,
     MaxRetries |-> IF maxRetries < 0 THEN 0 ELSE maxRetries,
     MaxIterations |-> EffectiveMaxIterations(maxIterations),
     script |-> scr, userTools |-> tools, tools |-> Append(tools, ReturnToolDef),
     messages |-> PrependSystem(BaseMessages), iter |-> 0, cur |-> 0, pos |-> 0,
     rawArgs |-> <<>>, partial |-> NoPartial,
     finalObjSet |-> FALSE, finalObj |-> NoObject, finalRaw |-> <<>>,
     usage |-> ZeroUsage, err |-> NoErr, emitted |-> FALSE, fallback |-> FALSE,
     reqs |-> <<>>, execCalls |-> <<>>, log |-> <<>>, ret |-> "none", nexts |-> 0,
     split |-> "whole"]

ObjStreamIdle == [ObjStreamNew(TRUE, 0, 0, <<>>, <<>>) EXCEPT !.pc = "idle"]

ObjStreamRet(st, b) == [st EXCEPT !.ret = IF b THEN "true" ELSE "false"]

\* Stream.Raw
ObjStreamRaw(st) == IF st.fallback THEN st.finalRaw ELSE st.rawArgs

\* consumeToolDeltas: whether a fragment was taken
Advanced(deltas) ==
    \E i \in 1..Len(deltas) :
        /\ deltas[i].Name = "" \/ deltas[i].Name = ReturnToolName
        /\ deltas[i].ArgumentsDelta # <<>>

\* consumeToolDeltas: the fragments appended, the partial view recomputed
RECURSIVE ConsumeToolDeltas(_, _)
ConsumeToolDeltas(st, deltas) ==
    IF deltas = <<>> THEN st
    ELSE LET d == Head(deltas)
         IN IF (d.Name # "" /\ d.Name # ReturnToolName) \/ d.ArgumentsDelta = <<>>
            THEN ConsumeToolDeltas(st, Tail(deltas))
            ELSE LET raw == st.rawArgs \o d.ArgumentsDelta
                 IN ConsumeToolDeltas(
                        [st EXCEPT !.rawArgs = raw,
                                   !.partial = IF JsonValid(raw) THEN <<"map", raw[2]>>
                                               ELSE st.partial],
                        Tail(deltas))

\* Stream.start: the next provider stream, or the fallback to Generate; the
\* request handed to Generate carries the stream's tool list
ObjStreamStart(st) ==
    LET req == Request(ReqModel.Name, st.messages, st.tools)
        reqs == Append(st.reqs, req)
        turn == ObjTurnAt(st.script, Len(reqs))
        logG == st.log \o <<Ev("provider_start", Len(reqs), 0)>>
        st0 == [st EXCEPT !.reqs = reqs, !.log = logG]
    IN
    IF turn.kind = "unsupported"
    THEN LET r == ObjectGenerateReq(st, st.script, st.tools, st.messages, reqs)
             st1 == [st0 EXCEPT !.reqs = r.reqs, !.log = logG \o r.log,
                                !.execCalls = st.execCalls \o r.execCalls]
         IN IF r.err # NoErr
            THEN IF r.err.kind = "Provider" \/ st.Strict
                 THEN [st1 EXCEPT !.err = r.err]
                 ELSE [st1 EXCEPT !.finalRaw = r.res.Raw, !.usage = r.res.Usage,
                                  !.fallback = TRUE]
            ELSE [st1 EXCEPT !.finalObjSet = TRUE, !.finalObj = r.res.Object,
                             !.finalRaw = r.res.Raw, !.usage = r.res.Usage,
                             !.fallback = TRUE]
    ELSE IF turn.kind = "error"
    THEN [st0 EXCEPT !.err = Err("Provider", "", "", 0)]
    ELSE [st0 EXCEPT !.cur = Len(reqs), !.pos = 0]

\* Stream.Next after the provider stream ended: the final response
ObjStreamTurnEnd(st, final) ==
    LET st1 == [st EXCEPT !.cur = 0, !.pos = 0,
                          !.usage = AddUsage(st.usage, final.Usage),
                          !.messages = Append(st.messages, final.Message),
                          !.log = st.log \o <<Ev("provider_end", Len(st.reqs), 0)>>]
    IN
    IF HasReturnCall(final.Message)
    THEN LET raw == FindReturnArgs(final.Message)
             st2 == [st1 EXCEPT !.finalRaw = raw]
             v == SchemaValidate(raw)
         IN IF v # "ok"
            THEN ObjStreamRet([st2 EXCEPT !.err = IF st.Strict THEN Err(v, "", "", 0)
                                                  ELSE st.err], FALSE)
            ELSE IF DecodeFails(raw)
            THEN ObjStreamRet([st2 EXCEPT !.err = IF st.Strict
                                                  THEN Err("decode", "", "", 0)
                                                  ELSE st.err], FALSE)
            ELSE ObjStreamRet([st2 EXCEPT !.finalObjSet = TRUE,
                                          !.finalObj = Decode(raw)], FALSE)
    ELSE
      LET nonReturn == FilterNonReturn(ExtractToolCalls(final.Message))
      IN
      IF Len(nonReturn) = 0
      THEN ObjStreamRet([st1 EXCEPT !.err = Err("NoReturnCall", "", "", 0)], FALSE)
      ELSE
        LET outD == ExecuteToolCalls(st.userTools, nonReturn, Len(st.reqs),
                                     [on |-> FALSE, indexByID |-> <<>>])
            st2 == [st1 EXCEPT !.log = st1.log \o outD.log,
                               !.execCalls = Append(st.execCalls, nonReturn)]
        IN
        IF outD.err # NoErr THEN ObjStreamRet([st2 EXCEPT !.err = outD.err], FALSE)
        ELSE
          LET st3 == [st2 EXCEPT !.messages = st1.messages \o outD.results,
                                 !.rawArgs = <<>>, !.partial = NoPartial,
                                 !.iter = st.iter + 1]
          IN IF st3.iter >= st.MaxIterations
             THEN ObjStreamRet([st3 EXCEPT !.err = Err("MaxIterations", "", "",
                                                       st.MaxIterations)], FALSE)
             ELSE st3

\* the `for` loop of Stream.Next; after a fallback start() leaves s.cur nil,
\* and s.cur.Next() on the nil stream panics
RECURSIVE ObjStreamLoop(_)
ObjStreamLoop(st) ==
    IF st.cur = 0
    THEN LET st1 == ObjStreamStart(st)
         IN IF st1.err # NoErr THEN ObjStreamRet(st1, FALSE)
            ELSE IF st1.cur = 0 THEN [st1 EXCEPT !.ret = "panic"]
            ELSE ObjStreamLoop(st1)
    ELSE
      LET ds == SplitDeltas(ObjTurnAt(st.script, st.cur), st.split)
      IN
      IF st.pos < Len(ds)
      THEN LET d == ds[st.pos + 1]
               st1 == ConsumeToolDeltas([st EXCEPT !.pos = st.pos + 1], d.ToolCalls)
           IN IF Advanced(d.ToolCalls) THEN ObjStreamRet(st1, TRUE)
              ELSE ObjStreamLoop(st1)
      ELSE
        LET st1 == ObjStreamTurnEnd(st, FinalResponse(ObjTurnAt(st.script, st.cur)))
        IN IF st1.ret # "none" THEN st1 ELSE ObjStreamLoop(st1)

\* Stream.Next
ObjStreamNextOp(st) ==
    IF st.err # NoErr THEN ObjStreamRet(st, FALSE)
    ELSE IF st.fallback
    THEN IF st.emitted THEN ObjStreamRet(st, FALSE)
         ELSE ObjStreamRet([st EXCEPT !.emitted = TRUE], TRUE)
    ELSE IF st.finalObjSet THEN ObjStreamRet(st, FALSE)
    ELSE ObjStreamLoop([st EXCEPT !.ret = "none"])

\* one call of Next on the object stream by the consumer
ObjStreamNext ==
    /\ ostrm.pc = "open"
    /\ ostrm.ret # "panic"
    /\ ostrm.ret # "false" \/ ostrm.nexts < MaxIdleNext
    /\ ostrm' = [ObjStreamNextOp(ostrm) EXCEPT
                   !.nexts = IF ostrm.ret = "false" THEN ostrm.nexts + 1
                             ELSE ostrm.nexts]
    /\ UNCHANGED <<script, opts, reqTools, gen, strm, obj, dec, agent>>

----------------------------------------------------------------------------
(* Delta decoder: the openai provider's stream, from server-sent chunks to  *)
(* deltas and the final response.                                           *)

\* one tool-call piece of a chunk (chatCompletionChunk ... ToolCalls[i])
Piece(index, id, name, arguments) ==
    [Index |-> index, ID |-> id, Name |-> name, Arguments |-> arguments]

\* a chunk: "data" with content, tool-call pieces, finish reason and usage,
\* or the "[DONE]" marker
Chunk(content, pieces, finish, usage) ==
    [kind |-> "data", Content |-> content, ToolCalls |-> pieces,
     FinishReason |-> finish, Usage |-> usage]
DoneChunk == [kind |-> "done", Content |-> <<>>, ToolCalls |-> <<>>,
              FinishReason |-> "", Usage |-> ZeroUsage]

\* newStream
DecNew(chunks) ==
    [pc |-> "open", chunks |-> chunks, pos |-> 0,
     curDelta |-> Delta(<<>>, <<>>), finalSet |-> FALSE, final |-> ZeroResponse,
     err |-> NoErr, textBuilder |-> <<>>, toolCallsByIndex |-> <<>>,
     finishReason |-> "", usage |-> ZeroUsage, ret |-> "none", nexts |-> 0]

DecIdle == [DecNew(<<>>) EXCEPT !.pc = "idle"]

\* one tool-call piece taken into its position's aggregate; toolCallsByIndex
\* is kept as the list of its entries in order of first arrival
AggPiece(aggs, tc) ==
    LET k0 == IF \E j \in 1..Len(aggs) : aggs[j].index = tc.Index
              THEN CHOOSE j \in 1..Len(aggs) : aggs[j].index = tc.Index
              ELSE 0
        aggs1 == IF k0 = 0
                 THEN Append(aggs, [index |-> tc.Index, id |-> "", name |-> "",
                                    args |-> <<>>])
                 ELSE aggs
        k == IF k0 = 0 THEN Len(aggs1) ELSE k0
    IN [aggs1 EXCEPT ![k] =
          [index |-> tc.Index,
           id |-> IF tc.ID # "" THEN tc.ID ELSE aggs1[k].id,
           name |-> IF tc.Name # "" THEN tc.Name ELSE aggs1[k].name,
           args |-> aggs1[k].args \o tc.Arguments]]

RECURSIVE AggPieces(_, _)
AggPieces(aggs, pieces) ==
    IF pieces = <<>> THEN aggs
    ELSE AggPieces(AggPiece(aggs, Head(pieces)), Tail(pieces))

\* the deltas passed on for the pieces of a chunk: those with arguments
PieceDeltas(pieces) ==
    LET withArgs == SelectSeq(pieces, LAMBDA tc : tc.Arguments # <<>>)
    IN [k \in 1..Len(withArgs) |->
          ToolCallDelta(withArgs[k].Index, withArgs[k].ID, withArgs[k].Name,
                        withArgs[k].Arguments)]

\* the aggregates in order of arrival
AggsInArrivalOrder(aggs) == aggs

\* sort.Ints(indices): the aggregates by position
RECURSIVE AggsByIndex(_)
AggsByIndex(aggs) ==
    IF aggs = <<>> THEN <<>>
    ELSE LET k == CHOOSE k \in 1..Len(aggs) :
                     \A j \in 1..Len(aggs) : aggs[k].index <= aggs[j].index
         IN <<aggs[k]>> \o
            AggsByIndex(SubSeq(aggs, 1, k - 1) \o SubSeq(aggs, k + 1, Len(aggs)))

\* stream.finalize
DecFinalize(st) ==
    IF st.finalSet THEN st
    ELSE LET named == SelectSeq(AggsByIndex(st.toolCallsByIndex),
                                LAMBDA a : a.name # "")
             calls == [k \in 1..Len(named) |->
                         Call(named[k].id, named[k].name, named[k].args)]
         IN [st EXCEPT !.finalSet = TRUE,
                       !.final = [Message |-> AssistantMsg(st.textBuilder, calls),
                                  Usage |-> st.usage,
                                  FinishReason |-> st.finishReason]]

\* the loop of stream.Next over the chunks not yet read
RECURSIVE DecLoop(_)
DecLoop(st) ==
    IF st.pos >= Len(st.chunks)
    THEN [DecFinalize(st) EXCEPT !.ret = "false"]
    ELSE
      LET c == st.chunks[st.pos + 1]
          st0 == [st EXCEPT !.pos = st.pos + 1]
      IN
      IF c.kind = "done" THEN [DecFinalize(st0) EXCEPT !.ret = "false"]
      ELSE
        LET st1 == [st0 EXCEPT
                      !.textBuilder = st.textBuilder \o c.Content,
                      !.curDelta = Delta(IF c.Content # <<>> THEN c.Content
                                         ELSE st.curDelta.Text,
                                         st.curDelta.ToolCalls \o PieceDeltas(c.ToolCalls)),
                      !.toolCallsByIndex = AggPieces(st.toolCallsByIndex, c.ToolCalls),
                      !.finishReason = IF c.FinishReason # "" THEN c.FinishReason
                                       ELSE st.finishReason,
                      !.usage = IF c.Usage # ZeroUsage THEN c.Usage ELSE st.usage]
        IN IF st1.curDelta.Text # <<>> \/ st1.curDelta.ToolCalls # <<>>
           THEN [st1 EXCEPT !.ret = "true"]
           ELSE DecLoop(st1)

\* stream.Next
DecNextOp(st) ==
    IF st.err # NoErr \/ st.finalSet THEN [st EXCEPT !.ret = "false"]
    ELSE DecLoop([st EXCEPT !.curDelta = Delta(<<>>, <<>>)])

\* one call of Next on the provider stream
DecNext ==
    /\ dec.pc = "open"
    /\ dec.ret # "false" \/ dec.nexts < MaxIdleNext
    /\ dec' = [DecNextOp(dec) EXCEPT
                 !.nexts = IF dec.ret = "false" THEN dec.nexts + 1 ELSE dec.nexts]
    /\ UNCHANGED <<script, opts, reqTools, gen, strm, obj, ostrm, agent>>

----------------------------------------------------------------------------
(* The text engines: one request, run by both engines over the same script *)

\* Agent: the loop controls and hooks of its configuration; no Agent is used
\* by a request made directly
MaxAgentIter == 2
NoAgent == [MaxIterations |-> 0, StopWhen |-> "none", OnStepFinish |-> FALSE]
Agents ==
    [MaxIterations : (-1)..MaxAgentIter, StopWhen : StopWhenPolicies,
     OnStepFinish : BOOLEAN]

\* Agent.baseRequest without the default of one step
AgentBaseRequestNoDefault(a) ==
    [MaxIterations |-> IF a.MaxIterations <= 0 THEN 5 ELSE a.MaxIterations,
     StopWhen |-> a.StopWhen, PrepareStep |-> "nil", OnStepFinish |-> a.OnStepFinish]

\* Agent.baseRequest: the ToolLoop options and hooks of the request
AgentBaseRequest(a) ==
    LET maxIter0 == a.MaxIterations
        \* `if maxIter <= 0 && a.StopWhen == nil { maxIter = 1 }`
        maxIter1 == IF maxIter0 <= 0 /\ a.StopWhen = "nil" THEN 1 ELSE maxIter0
        \* `if maxIter <= 0 { maxIter = 5 }`
        maxIter == IF maxIter1 <= 0 THEN 5 ELSE maxIter1
    IN [MaxIterations |-> maxIter, StopWhen |-> a.StopWhen,
        PrepareStep |-> "nil", OnStepFinish |-> a.OnStepFinish]

TextOptions ==
    [MaxIterations : 0..MaxIterOpt, StopWhen : StopWhenPolicies,
     PrepareStep : PrepareStepPolicies, OnStepFinish : BOOLEAN]

Init ==
    /\ script \in Scripts
    /\ opts \in TextOptions
    /\ reqTools = DeclaredTools
    /\ gen = GenIdle
    /\ strm = StreamStart
    /\ obj = ObjIdle
    /\ ostrm = ObjStreamIdle
    /\ dec = DecIdle
    /\ agent = NoAgent

Next == Generate \/ StreamNext

Spec == Init /\ [][Next]_vars

----------------------------------------------------------------------------
(* The object enforcer: one GenerateObject request *)

ObjToolSets == {DeclaredTools, <<AddTool, Tool(ReturnToolName, NoSchema, "fn")>>}

InitObj ==
    /\ script = <<>>
    /\ opts = [MaxIterations |-> 0, StopWhen |-> "nil", PrepareStep |-> "nil",
               OnStepFinish |-> FALSE]
    /\ reqTools = DeclaredTools
    /\ gen = GenIdle
    /\ strm = StreamStart
    /\ ostrm = ObjStreamIdle
    /\ dec = DecIdle
    /\ agent = NoAgent
    /\ \E st \in BOOLEAN, mr \in (-1)..MaxRetriesOpt, mi \in 0..MaxObjIterOpt,
          scr \in ObjScripts, ts \in ObjToolSets :
          obj = [ObjIdle EXCEPT !.pc = "ready", !.Strict = st, !.MaxRetries = mr,
                                !.MaxIterations = mi, !.script = scr, !.tools = ts]

NextObj == GenerateObject

SpecObj == InitObj /\ [][NextObj]_vars

----------------------------------------------------------------------------
(* The streaming object enforcer: one StreamObject request *)

InitObjStream ==
    /\ script = <<>>
    /\ opts = [MaxIterations |-> 0, StopWhen |-> "nil", PrepareStep |-> "nil",
               OnStepFinish |-> FALSE]
    /\ reqTools = DeclaredTools
    /\ gen = GenIdle
    /\ strm = StreamStart
    /\ obj = ObjIdle
    /\ dec = DecIdle
    /\ agent = NoAgent
    /\ \E st \in BOOLEAN, mr \in (-1)..MaxRetriesOpt, mi \in 0..MaxObjIterOpt,
          scr \in ObjScripts, ts \in ObjToolSets, sp \in ArgSplits :
          ostrm = [ObjStreamNew(st, mr, mi, scr, ts) EXCEPT !.split = sp]

NextObjStream == ObjStreamNext

SpecObjStream == InitObjStream /\ [][NextObjStream]_vars

----------------------------------------------------------------------------
(* Both object enforcers on one request: GenerateObject and StreamObject    *)
(* with the same options, tools and provider script                         *)

InitEnforcers ==
    /\ script = <<>>
    /\ opts = [MaxIterations |-> 0, StopWhen |-> "nil", PrepareStep |-> "nil",
               OnStepFinish |-> FALSE]
    /\ reqTools = DeclaredTools
    /\ gen = GenIdle
    /\ strm = StreamStart
    /\ dec = DecIdle
    /\ agent = NoAgent
    /\ \E st \in BOOLEAN, mr \in (-1)..MaxRetriesOpt, mi \in 0..MaxObjIterOpt,
          scr \in ObjScripts, ts \in ObjToolSets :
          /\ obj = [ObjIdle EXCEPT !.pc = "ready", !.Strict = st, !.MaxRetries = mr,
                                   !.MaxIterations = mi, !.script = scr, !.tools = ts]
          /\ ostrm = ObjStreamNew(st, mr, mi, scr, ts)

\* the caller runs GenerateObject first and then reads the stream
NextEnforcers == GenerateObject \/ (obj.pc = "done" /\ ObjStreamNext)

SpecEnforcers == InitEnforcers /\ [][NextEnforcers]_vars

----------------------------------------------------------------------------
(* The delta decoder: one provider stream carrying two tool calls *)

\* the calls the server streams, by position
DecCalls == <<COk1, CEcho2>>

\* most fragments the arguments of one call are cut into
MaxArgFrags == 2

\* every way the server can send what is left: rem[p] the arguments of
\* position p still to send, nm[p] whether its id and name were sent, fr[p]
\* the fragments it was sent in so far.  Id and name come in a chunk of their
\* own or with any one fragment; positions interleave freely.
RECURSIVE PieceStreams(_, _, _)
PieceStreams(rem, nm, fr) ==
    IF \A p \in 1..Len(rem) : rem[p] = <<>> /\ nm[p]
    THEN {<<>>}
    ELSE UNION {
      LET c == DecCalls[p]
          OnePiece(piece) == Chunk(<<>>, <<piece>>, "", ZeroUsage)
          nameOnly ==
            IF nm[p] THEN {}
            ELSE {<<OnePiece(Piece(p - 1, c.ID, c.Name, <<>>))>> \o rest :
                    rest \in PieceStreams(rem, [nm EXCEPT ![p] = TRUE], fr)}
          cuts == {k \in 1..Len(rem[p]) :
                     fr[p] + 1 < MaxArgFrags \/ k = Len(rem[p])}
          plain ==
            UNION {{<<OnePiece(Piece(p - 1, "", "", SubSeq(rem[p], 1, k)))>> \o rest :
                      rest \in PieceStreams(
                                 [rem EXCEPT ![p] = SubSeq(rem[p], k + 1, Len(rem[p]))],
                                 nm, [fr EXCEPT ![p] = fr[p] + 1])} : k \in cuts}
          named ==
            IF nm[p] THEN {}
            ELSE UNION {{<<OnePiece(Piece(p - 1, c.ID, c.Name, SubSeq(rem[p], 1, k)))>>
                           \o rest :
                           rest \in PieceStreams(
                                      [rem EXCEPT ![p] = SubSeq(rem[p], k + 1, Len(rem[p]))],
                                      [nm EXCEPT ![p] = TRUE],
                                      [fr EXCEPT ![p] = fr[p] + 1])} : k \in cuts}
      IN nameOnly \cup plain \cup named : p \in 1..Len(rem)}

\* the chunk streams: text or none, the tool-call pieces, the finish
\* chunk, and the [DONE] marker or the end of the body
ChunkStreams ==
    LET TextChunk == Chunk(<<"t">>, <<>>, "", ZeroUsage)
        FinishChunk == Chunk(<<>>, <<>>, "tool_calls", Usage(1, 1))
    IN
    {pre \o mid \o <<FinishChunk>> \o post :
        pre \in {<<>>, <<TextChunk>>},
        mid \in PieceStreams([p \in 1..Len(DecCalls) |-> DecCalls[p].Args],
                             [p \in 1..Len(DecCalls) |-> FALSE],
                             [p \in 1..Len(DecCalls) |-> 0]),
        post \in {<<>>, <<DoneChunk>>}}

InitDec ==
    /\ script = <<>>
    /\ opts = [MaxIterations |-> 0, StopWhen |-> "nil", PrepareStep |-> "nil",
               OnStepFinish |-> FALSE]
    /\ reqTools = DeclaredTools
    /\ gen = GenIdle
    /\ strm = StreamStart
    /\ obj = ObjIdle
    /\ ostrm = ObjStreamIdle
    /\ \E chunks \in ChunkStreams : dec = DecNew(chunks)
    /\ agent = NoAgent

NextDec == DecNext

SpecDec == InitDec /\ [][NextDec]_vars

----------------------------------------------------------------------------
(* StreamText with tools that have input hooks, over provider streams that *)
(* cut the arguments in every way                                          *)

\* a second tool-calling turn whose call has an id of its own
LaterCallTurn ==
    Turn("resp", <<>>, <<Call("c3", "echo", JsonDoc("s"))>>, Usage(1, 1), "tool_calls")

LifeScripts ==
    Scripts \cup {<<first, LaterCallTurn, TextTurn>> : first \in ContTurns}

InitLifecycle ==
    /\ script \in LifeScripts
    /\ opts \in [MaxIterations : {0}, StopWhen : {"nil"}, PrepareStep : {"nil"},
                 OnStepFinish : BOOLEAN]
    /\ reqTools = DeclaredTools
    /\ gen = GenIdle
    /\ \E sp \in ArgSplits, h \in BOOLEAN :
          strm = [StreamStart EXCEPT !.split = sp, !.hooksOn = h]
    /\ obj = ObjIdle
    /\ ostrm = ObjStreamIdle
    /\ dec = DecIdle
    /\ agent = NoAgent

NextLifecycle == Generate \/ StreamNext

SpecLifecycle == InitLifecycle /\ [][NextLifecycle]_vars

----------------------------------------------------------------------------
\* Agent.Generate and Agent.Stream: the request built by baseRequest, run by
\* the two text engines
InitAgent ==
    /\ script \in Scripts
    /\ agent \in Agents
    /\ opts = AgentBaseRequest(agent)
    /\ reqTools = DeclaredTools
    /\ gen = GenIdle
    /\ strm = StreamStart
    /\ obj = ObjIdle
    /\ ostrm = ObjStreamIdle
    /\ dec = DecIdle

NextAgent == Generate \/ StreamNext

SpecAgent == InitAgent /\ [][NextAgent]_vars

----------------------------------------------------------------------------
\* StreamText with a Timeout, the clock and the caller's context
MaxTimeout == 2

\* StreamText: the stream is built on the context of applyTimeout, and the
\* deferred cancel runs when StreamText returns
StreamText ==
    /\ strm.ctx = NoCtx
    /\ \E timeout \in 0..MaxTimeout :
          LET at == ApplyTimeout(Background, timeout)
              \* text.NewStream(ctx, ...)
              s == [strm EXCEPT !.ctx = at.ctx]
          IN \* `defer cancel()`
             strm' = IF at.cancel = "cancel" THEN [s EXCEPT !.ctx.cancelled = TRUE]
                     ELSE s
    /\ UNCHANGED <<script, opts, reqTools, gen, obj, ostrm, dec, agent>>

\* time passes: the deadline of the context comes nearer and is reached
Tick ==
    /\ strm.ctx.deadline > 0 /\ ~strm.ctx.elapsed
    /\ strm' = IF strm.ctx.deadline = 1
               THEN [strm EXCEPT !.ctx.elapsed = TRUE]
               ELSE [strm EXCEPT !.ctx.deadline = strm.ctx.deadline - 1]
    /\ UNCHANGED <<script, opts, reqTools, gen, obj, ostrm, dec, agent>>

\* the caller cancels the context it passed to StreamText
CancelCaller ==
    /\ strm.ctx # NoCtx /\ ~strm.ctx.parentDone
    /\ strm' = [strm EXCEPT !.ctx.parentDone = TRUE]
    /\ UNCHANGED <<script, opts, reqTools, gen, obj, ostrm, dec, agent>>

InitTimeout ==
    /\ script \in Scripts
    /\ opts = [MaxIterations |-> 0, StopWhen |-> "nil", PrepareStep |-> "nil",
               OnStepFinish |-> FALSE]
    /\ reqTools = DeclaredTools
    /\ gen = GenIdle
    /\ strm = [StreamStart EXCEPT !.ctx = NoCtx]
    /\ obj = ObjIdle
    /\ ostrm = ObjStreamIdle
    /\ dec = DecIdle
    /\ agent = NoAgent

NextTimeout ==
    \/ StreamText
    \/ (strm.ctx # NoCtx /\ StreamNext)
    \/ Tick
    \/ CancelCaller

SpecTimeout == InitTimeout /\ [][NextTimeout]_vars

----------------------------------------------------------------------------
\* The accessors of the TextStream, called by the consumer between the
\* calls of Next

\* TextStream.Steps
TextStreamSteps ==
    /\ LET out == IF strm.view.cachedSteps # <<>> THEN strm.view.cachedSteps
                  ELSE StepsFromProviderSteps(strm.steps)
       IN strm' = [strm EXCEPT
                     !.view.cachedSteps = out, !.view.steps = out,
                     !.view.stepsAtEnd = (strm.ret = "false"),
                     !.view.stepsEarly = @ \/ (strm.ret # "false" /\ out # <<>>)]
    /\ UNCHANGED <<script, opts, reqTools, gen, obj, ostrm, dec, agent>>

\* TextStream.Response
TextStreamResponse ==
    /\ LET out == IF strm.view.cachedResp # <<>> THEN strm.view.cachedResp
                  ELSE MessagesFromProviderMessages(strm.responseMessages)
       IN strm' = [strm EXCEPT
                     !.view.cachedResp = out, !.view.resp = out,
                     !.view.respAtEnd = (strm.ret = "false"),
                     !.view.respEarly = @ \/ (strm.ret # "false" /\ out # <<>>)]
    /\ UNCHANGED <<script, opts, reqTools, gen, obj, ostrm, dec, agent>>

InitAccessors ==
    /\ script \in Scripts
    /\ opts = [MaxIterations |-> 0, StopWhen |-> "nil", PrepareStep |-> "nil",
               OnStepFinish |-> FALSE]
    /\ reqTools = DeclaredTools
    /\ gen = GenIdle
    /\ strm = StreamStart
    /\ obj = ObjIdle
    /\ ostrm = ObjStreamIdle
    /\ dec = DecIdle
    /\ agent = NoAgent

NextAccessors == StreamNext \/ TextStreamSteps \/ TextStreamResponse

SpecAccessors == InitAccessors /\ [][NextAccessors]_vars

----------------------------------------------------------------------------
(* Properties of the text engines (checked under Spec) *)

GenDone == gen.pc = "done"
StrmDone == strm.ret = "false"

\* field-wise sum of the usage of the steps' responses
RECURSIVE SumPrompt(_), SumCompletion(_), SumTotal(_)
SumPrompt(steps) ==
    IF steps = <<>> THEN 0 ELSE Head(steps).Response.Usage.PromptTokens + SumPrompt(Tail(steps))
SumCompletion(steps) ==
    IF steps = <<>> THEN 0
    ELSE Head(steps).Response.Usage.CompletionTokens + SumCompletion(Tail(steps))
SumTotal(steps) ==
    IF steps = <<>> THEN 0 ELSE Head(steps).Response.Usage.TotalTokens + SumTotal(Tail(steps))
UsageIsSum(u, steps, extra) ==
    /\ u.PromptTokens = SumPrompt(steps) + extra.PromptTokens
    /\ u.CompletionTokens = SumCompletion(steps) + extra.CompletionTokens
    /\ u.TotalTokens = SumTotal(steps) + extra.TotalTokens

DispatchErrKinds ==
    {"MissingID", "NoSuchTool", "MissingHandler", "InvalidToolInput", "ToolExecution",
     "NoTools"}

\* C1 as stated: once both runs have ended, the streaming run and the
\* blocking run over the same turns agree on the error, the final response,
\* the aggregated usage, the steps and the response messages.
C1_StreamEqualsBlocking ==
    (GenDone /\ StrmDone) =>
        /\ strm.err = gen.err
        /\ strm.finalSet = (gen.err = NoErr)
        /\ strm.finalSet => strm.final = gen.res.Response
        /\ strm.aggUsage = gen.res.AggregatedUsage
        /\ strm.steps = gen.res.Steps
        /\ strm.responseMessages = gen.res.ResponseMessages

\* C1 amended: both runs end with the same error or both without error, and
\* when they end without error the final response, the aggregated usage, the
\* steps and the response messages are equal; on an error the blocking
\* engine returns nothing.
C1_StreamEqualsBlockingOnSuccess ==
    (GenDone /\ StrmDone) =>
        /\ strm.err = gen.err
        /\ strm.finalSet = (gen.err = NoErr)
        /\ gen.err # NoErr => gen.res = ZeroResult
        /\ gen.err = NoErr =>
              /\ strm.final = gen.res.Response
              /\ strm.aggUsage = gen.res.AggregatedUsage
              /\ strm.steps = gen.res.Steps
              /\ strm.responseMessages = gen.res.ResponseMessages

C1_Witness ==
    /\ GenDone /\ StrmDone /\ gen.err = NoErr
    /\ Len(strm.steps) >= 2 /\ Len(strm.out) >= 2
    /\ opts.PrepareStep = "msgs"

\* C2 as stated: in every state of either engine's run the aggregated usage
\* exposed to the caller is the field-wise sum of the recorded steps' usage.
C2_UsageIsSumOfSteps ==
    /\ GenDone => UsageIsSum(gen.res.AggregatedUsage, gen.res.Steps, ZeroUsage)
    /\ UsageIsSum(strm.aggUsage, strm.steps, ZeroUsage)

\* C2 amended: the same, except after a streaming run has failed in tool
\* dispatch: then the usage is that sum plus the usage of the failed turn,
\* for which no step was recorded.
C2_UsageIsSumOfStepsUnlessDispatchFailed ==
    /\ GenDone => UsageIsSum(gen.res.AggregatedUsage, gen.res.Steps, ZeroUsage)
    /\ strm.err.kind \notin DispatchErrKinds =>
          UsageIsSum(strm.aggUsage, strm.steps, ZeroUsage)
    /\ strm.err.kind \in DispatchErrKinds =>
          UsageIsSum(strm.aggUsage, strm.steps, TurnAt(script, Len(strm.reqs)).usage)

C2_Witness ==
    /\ GenDone /\ StrmDone /\ gen.err = NoErr /\ strm.err = NoErr
    /\ Len(gen.res.Steps) = 3 /\ Len(strm.steps) = 3
    /\ strm.aggUsage.TotalTokens > strm.final.Usage.TotalTokens

NoStopTaken(log) == \A i \in 1..Len(log) : ~(log[i].ev = "stopwhen" /\ log[i].idx = 1)
AllToolSteps(steps, n) ==
    Len(steps) = n /\ \A i \in 1..n : Len(steps[i].ToolCalls) > 0

HandlerRuns(log) == {i \in 1..Len(log) : log[i].ev = "handler_start"}

FirstTurnNoCalls == script[1].kind = "resp" /\ script[1].calls = <<>>

\* C4: when the first turn has no tool calls the run makes exactly one
\* provider call, records exactly one step, runs no handler and returns that
\* turn's response, whatever maxIterations and StopWhen are.
C4_NoToolCallsOneStep ==
    FirstTurnNoCalls =>
        /\ Len(gen.reqs) <= 1 /\ Len(strm.reqs) <= 1
        /\ GenDone =>
              /\ gen.err = NoErr /\ Len(gen.reqs) = 1 /\ Len(gen.res.Steps) = 1
              /\ HandlerRuns(gen.log) = {}
              /\ gen.res.Response = FinalResponse(script[1])
        /\ StrmDone =>
              /\ strm.err = NoErr /\ Len(strm.reqs) = 1 /\ Len(strm.steps) = 1
              /\ HandlerRuns(strm.log) = {}
              /\ strm.finalSet /\ strm.final = FinalResponse(script[1])

C4_Witness ==
    /\ FirstTurnNoCalls /\ GenDone /\ StrmDone
    /\ opts.MaxIterations = 0 /\ opts.StopWhen = "always"
    /\ Len(strm.steps) = 1 /\ strm.nexts = 1

\* the tool-result messages a successful dispatch of these calls yields
ExpectedResults(calls) ==
    [j \in 1..Len(calls) |->
        Msg("tool", <<"res", calls[j].Name>> \o calls[j].Args, <<>>,
            calls[j].ID, calls[j].Name)]

\* request i+1 carries request i's messages, then turn i's assistant
\* message, then one result per call of turn i, in call order
MessageChain(reqs) ==
    /\ reqs # <<>> => reqs[1].Messages = BaseMessages
    /\ \A i \in 1..(Len(reqs) - 1) :
          reqs[i + 1].Messages =
              reqs[i].Messages \o <<FinalResponse(script[i]).Message>>
              \o ExpectedResults(script[i].calls)

\* the run's last turn is a response without tool calls
EndsWithTextTurn(reqs) ==
    /\ reqs # <<>>
    /\ TurnAt(script, Len(reqs)).kind = "resp"
    /\ TurnAt(script, Len(reqs)).calls = <<>>

\* C5: without PrepareStep, a run whose turns 1..k call tools and whose
\* turn k+1 does not makes k+1 provider calls, records k+1 steps, ends with
\* turn k+1's text, and each request extends the one before it by the
\* assistant message and the tool results of the turn between them.
C5_ToolLoopTrace ==
    opts.PrepareStep = "nil" =>
        /\ MessageChain(gen.reqs)
        /\ MessageChain(strm.reqs)
        /\ (GenDone /\ EndsWithTextTurn(gen.reqs)) =>
              /\ gen.err = NoErr
              /\ Len(gen.res.Steps) = Len(gen.reqs)
              /\ \A i \in 1..(Len(gen.reqs) - 1) : script[i].calls # <<>>
              /\ gen.res.Response.Message.Text = Flatten(script[Len(gen.reqs)].frags)
        /\ (StrmDone /\ EndsWithTextTurn(strm.reqs)) =>
              /\ strm.err = NoErr
              /\ Len(strm.steps) = Len(strm.reqs)
              /\ \A i \in 1..(Len(strm.reqs) - 1) : script[i].calls # <<>>
              /\ strm.final.Message.Text = Flatten(script[Len(strm.reqs)].frags)

C5_Witness ==
    /\ opts.PrepareStep = "nil" /\ GenDone /\ StrmDone
    /\ Len(gen.reqs) = 3 /\ Len(strm.reqs) = 3
    /\ script[1] = TwoCallTurn /\ script[3] = TextTurn
    /\ Len(gen.reqs[3].Messages) = 6

EventsAt(log, ev, turn) == {i \in 1..Len(log) : log[i].ev = ev /\ log[i].turn = turn}

\* the StopWhen events of a run, against its recorded steps and requests
StopWhenDiscipline(log, steps, reqs, done, err, hasFinal, final) ==
    /\ \A k \in 1..Len(steps) :
          LET sw == EventsAt(log, "stopwhen", steps[k].StepNumber)
          IN IF Len(steps[k].ToolResults) > 0
             THEN /\ Cardinality(sw) = 1
                  /\ \A i \in sw :
                        /\ \A j \in EventsAt(log, "handler_end", steps[k].StepNumber) : j < i
                        /\ opts.OnStepFinish =>
                              \E j \in EventsAt(log, "stepfinish", steps[k].StepNumber) :
                                  j < i
             ELSE sw = {}
    /\ \A i \in 1..Len(log) :
          log[i].ev = "stopwhen" =>
              \E k \in 1..Len(steps) : steps[k].StepNumber = log[i].turn
    /\ \A i \in 1..Len(log) :
          (log[i].ev = "stopwhen" /\ log[i].idx = 1) =>
              /\ i = Len(log)
              /\ done /\ err = NoErr /\ hasFinal
              /\ Len(reqs) = log[i].turn + 1
              /\ final = steps[Len(steps)].Response
              /\ steps[Len(steps)].StepNumber = log[i].turn
              /\ steps[Len(steps)].ToolResults =
                    ExpectedResults(steps[Len(steps)].ToolCalls)
              /\ steps[Len(steps)].ToolCalls # <<>>

\* C6: StopWhen is called exactly once after each step with tool results,
\* after the handlers and OnStepFinish of that step, and never for a step
\* without tool calls; when it returns true the run ends without error and
\* without another provider call, its final response is that turn's
\* response and the last step holds that turn's tool results.
C6_StopWhen ==
    IF opts.StopWhen = "nil"
    THEN /\ \A i \in 1..Len(gen.log) : gen.log[i].ev # "stopwhen"
         /\ \A i \in 1..Len(strm.log) : strm.log[i].ev # "stopwhen"
    ELSE /\ StopWhenDiscipline(gen.log, gen.steps, gen.reqs, GenDone, gen.err,
                               gen.res # ZeroResult, gen.res.Response)
         /\ StopWhenDiscipline(strm.log, strm.steps, strm.reqs, StrmDone, strm.err,
                               strm.finalSet, strm.final)

C6_Witness ==
    /\ opts.StopWhen = "atTwo" /\ opts.OnStepFinish /\ GenDone /\ StrmDone
    /\ Len(gen.res.Steps) = 2 /\ Len(strm.steps) = 2
    /\ gen.log[Len(gen.log)] = Ev("stopwhen", 1, 1)
    /\ strm.log[Len(strm.log)] = Ev("stopwhen", 1, 1)
    /\ Len(script) = 3

\* how the dispatch of one call ends, read off the call and the declared tools
CallClass(c) ==
    IF c.ID = "" THEN "MissingID"
    ELSE IF \A i \in 1..Len(reqTools) : reqTools[i].Name # c.Name THEN "NoSuchTool"
    ELSE IF c.Name = "add" /\ c.Args \notin {JsonDoc("i"), JsonDoc("f")}
      THEN "InvalidToolInput"
    ELSE IF c.Args = JsonDoc("f") THEN "ToolExecution"
    ELSE "ok"

ClaimedFailures == {"NoSuchTool", "InvalidToolInput", "ToolExecution"}

\* j is the first call of the turn whose dispatch fails
FirstFailure(calls, j) ==
    /\ j \in 1..Len(calls)
    /\ CallClass(calls[j]) \in ClaimedFailures
    /\ \A i \in 1..(j - 1) : CallClass(calls[i]) = "ok"

\* a turn with a failing call is the run's last; the handlers after the
\* failing call never start; the run ends with that call's error
DispatchAborts(log, reqs, done, err, hasFinal) ==
    \A n \in 1..Len(reqs) : \A j \in 1..Len(TurnAt(script, n).calls) :
        FirstFailure(TurnAt(script, n).calls, j) =>
            /\ n = Len(reqs)
            /\ \A i \in EventsAt(log, "handler_start", n - 1) :
                  IF CallClass(script[n].calls[j]) = "ToolExecution"
                  THEN log[i].idx <= j ELSE log[i].idx < j
            /\ done =>
                  /\ err.kind = CallClass(script[n].calls[j])
                  /\ ~hasFinal

\* C7: when the dispatch of a tool call fails (unknown tool, arguments
\* refused by the schema, handler error) no later handler of the turn runs,
\* no further provider call is made and the run ends with that error and
\* no final response, in both engines.
C7_DispatchFailureAborts ==
    /\ DispatchAborts(gen.log, gen.reqs, GenDone, gen.err, gen.res # ZeroResult)
    /\ DispatchAborts(strm.log, strm.reqs, StrmDone, strm.err, strm.finalSet)

C7_Witness ==
    /\ GenDone /\ StrmDone /\ strm.nexts = 1
    /\ Len(script) = 2 /\ script[2] = BoomTurn
    /\ gen.err.kind = "ToolExecution" /\ strm.err.kind = "ToolExecution"
    /\ Cardinality(EventsAt(strm.log, "handler_start", 1)) = 1

\* every recorded step holds one tool-role result per call, in call order,
\* the i-th carrying the i-th call's id
ResultsMatchCalls(steps) ==
    \A k \in 1..Len(steps) :
        /\ Len(steps[k].ToolResults) = Len(steps[k].ToolCalls)
        /\ \A i \in 1..Len(steps[k].ToolCalls) :
              /\ steps[k].ToolResults[i].Role = "tool"
              /\ steps[k].ToolResults[i].ToolCallID = steps[k].ToolCalls[i].ID

\* C8: a dispatch in which every call succeeds returns one tool-role
\* message per call, in call order, the i-th with the i-th call's id.
C8_ResultsMatchCalls ==
    /\ ResultsMatchCalls(gen.steps)
    /\ ResultsMatchCalls(strm.steps)

C8_Witness ==
    /\ GenDone
    /\ \E k \in 1..Len(strm.steps) :
          /\ Len(strm.steps[k].ToolResults) = 2
          /\ strm.steps[k].ToolResults[2].ToolCallID = "c2"
    /\ \E k \in 1..Len(gen.steps) : Len(gen.steps[k].ToolResults) = 2

\* the provider calls and handler runs of a log, in order
IsTimed(e) == e.ev \in {"provider_start", "provider_end", "handler_start", "handler_end"}
Timeline(log) == SelectSeq(log, IsTimed)
Rank(e) == IF e.ev \in {"provider_start", "provider_end"} THEN 0 ELSE 1
IsStart(e) == e.ev \in {"provider_start", "handler_start"}
Before(a, b) ==
    \/ a.turn < b.turn
    \/ a.turn = b.turn /\ Rank(a) < Rank(b)
    \/ a.turn = b.turn /\ Rank(a) = 1 /\ Rank(b) = 1 /\ a.idx < b.idx

\* every provider call and handler run ends before the next one starts, and
\* they come in the order turn by turn, provider call first, handlers by
\* call position; only a provider stream may still be open at the end
Sequential(tl) ==
    /\ \A i \in 1..Len(tl) :
          IF i % 2 = 1
          THEN /\ IsStart(tl[i])
               /\ i = Len(tl) => tl[i].ev = "provider_start"
          ELSE /\ ~IsStart(tl[i])
               /\ Rank(tl[i]) = Rank(tl[i - 1])
               /\ tl[i].turn = tl[i - 1].turn /\ tl[i].idx = tl[i - 1].idx
    /\ \A i \in 1..Len(tl) : (i % 2 = 1 /\ i + 2 <= Len(tl)) => Before(tl[i], tl[i + 2])
    /\ \A i \in 1..Len(tl) :
          tl[i].ev = "handler_start" =>
              \E j \in 1..(i - 1) : tl[j].ev = "provider_end" /\ tl[j].turn = tl[i].turn

\* C9: within a run the provider call of a turn ends before that turn's
\* handlers start, the handlers run one at a time in call order, the next
\* provider call starts after the last handler returned, and no two of them
\* are ever in progress together.
C9_StrictlySequential ==
    /\ Sequential(Timeline(gen.log))
    /\ GenDone => Len(Timeline(gen.log)) % 2 = 0
    /\ Sequential(Timeline(strm.log))
    /\ StrmDone => Len(Timeline(strm.log)) % 2 = 0

C9_Witness ==
    /\ GenDone /\ StrmDone
    /\ script[1] = TwoCallTurn /\ Len(strm.reqs) = 3 /\ Len(gen.reqs) = 3
    /\ Cardinality(EventsAt(strm.log, "handler_end", 0)) = 2
    /\ Cardinality(EventsAt(gen.log, "handler_end", 1)) >= 1

\* the text fragments the provider streamed in its first n turns, joined
TextOfTurns(n) == Flatten([i \in 1..n |-> Flatten(TurnAt(script, i).frags)])

\* the tokens that occur only in tool-call arguments
ArgTokens == {"{", "}"}

\* C25: every Next() of the text stream that returns true exposes a
\* non-empty text fragment; when the run is over, the exposed fragments
\* joined in order are the text fragments of all the turns' provider
\* streams in arrival order; no fragment of tool-call arguments is exposed.
C25_TextFragmentsSurfaced ==
    /\ strm.ret = "true" =>
         /\ strm.curDelta # <<>>
         /\ strm.out # <<>> /\ strm.out[Len(strm.out)] = strm.curDelta
    /\ strm.ret = "false" => Flatten(strm.out) = TextOfTurns(Len(strm.reqs))
    /\ \A k \in 1..Len(strm.out) : \A j \in 1..Len(strm.out[k]) :
         strm.out[k][j] \notin ArgTokens

\* a finished run of two turns: the first streams text and a tool call, the
\* second text with an empty fragment in between
C25_Witness ==
    /\ strm.ret = "false" /\ strm.finalSet
    /\ Len(strm.reqs) = 2
    /\ script[1].calls # <<>> /\ script[1].frags # <<>>
    /\ \E i \in 1..Len(script[2].frags) : script[2].frags[i] = <<>>
    /\ strm.out = << <<"t">>, <<"h">>, <<"i">> >>

\* the steps handed to OnStepFinish, in the order of the calls
Delivered(log) ==
    LET fin == SelectSeq(log, LAMBDA e : e.ev = "stepfinish")
    IN [i \in 1..Len(fin) |-> fin[i].step]

\* OnStepFinish against the step list: the same steps in the same order,
\* numbered from 0 without gaps, each delivered after the provider call and
\* the handlers of its turn and before that turn's StopWhen and anything of
\* a later turn
StepFinishDiscipline(log, steps) ==
    /\ Delivered(log) = steps
    /\ \A i \in 1..Len(steps) :
         /\ steps[i].StepNumber = i - 1
         /\ Cardinality(EventsAt(log, "stepfinish", i - 1)) = 1
         /\ \A k \in EventsAt(log, "stepfinish", i - 1) : \A j \in 1..Len(log) :
              /\ (log[j].turn = i - 1
                  /\ log[j].ev \in {"prepare", "provider_start", "provider_end",
                                    "handler_start", "handler_end"}) => j < k
              /\ (log[j].turn = i - 1 /\ log[j].ev = "stopwhen") => k < j
              /\ log[j].turn > i - 1 => k < j

\* a step once recorded stays as it is
StepsAppendOnly ==
    \A i \in 1..Len(strm.steps) :
        i <= Len(strm.steps') /\ strm.steps'[i] = strm.steps[i]

\* C26: in a run that succeeds, OnStepFinish receives exactly the steps of
\* the final step list, in order, each once and when it is recorded: after
\* the tool dispatch of its turn, before StopWhen and before the next
\* provider call; the i-th step has step number i counted from 0; a
\* recorded step is never changed or removed.
C26_StepFinishMatchesSteps ==
    /\ [](opts.OnStepFinish =>
            /\ (GenDone /\ gen.err = NoErr) =>
                  StepFinishDiscipline(gen.log, gen.res.Steps)
            /\ Delivered(strm.log) = strm.steps
            /\ strm.finalSet => StepFinishDiscipline(strm.log, strm.steps))
    /\ [][StepsAppendOnly]_vars

\* both engines have finished a run of three steps, two of them with tool
\* results, with OnStepFinish and StopWhen set
C26_Witness ==
    /\ opts.OnStepFinish /\ opts.StopWhen = "never"
    /\ GenDone /\ gen.err = NoErr /\ Len(gen.res.Steps) = 3
    /\ strm.finalSet /\ Len(strm.steps) = 3
    /\ Len(strm.steps[2].ToolResults) = 2
    /\ Len(Delivered(gen.log)) = 3

\* what the caller's PrepareStep returns for the turn of request i
PreparedFor(i) ==
    IF opts.PrepareStep = "nil" THEN PrepareOut(NoErr, NoModel, FALSE, <<>>, <<>>)
    ELSE CallerPrepareStep(opts.PrepareStep, i - 1)

\* the names of the declared tools that request i has to carry
ToolsExpected(i) ==
    LET at == PreparedFor(i).ActiveTools
        declared == [k \in 1..Len(reqTools) |-> reqTools[k].Name]
    IN IF at = <<>> THEN declared
       ELSE SelectSeq(declared, LAMBDA n : \E j \in 1..Len(at) : at[j] = n)

\* C27: the tools sent to the provider for a turn are the declared tools
\* named in the ActiveTools that PrepareStep returned for that turn, in
\* declaration order; without PrepareStep, or with empty ActiveTools, all
\* declared tools are sent; a restriction does not carry over to later turns.
C27_ActiveToolsPerTurn ==
    /\ \A i \in 1..Len(gen.reqs) : gen.reqs[i].Tools = ToolsExpected(i)
    /\ \A i \in 1..Len(strm.reqs) : strm.reqs[i].Tools = ToolsExpected(i)

\* three turns: one tool, then both tools named in reverse order, then no
\* restriction
C27_Witness ==
    /\ opts.PrepareStep = "active"
    /\ Len(gen.reqs) = 3 /\ Len(strm.reqs) = 3
    /\ strm.reqs[1].Tools = <<"echo">>
    /\ PreparedFor(2).ActiveTools = <<"echo", "add">>
    /\ strm.reqs[2].Tools = <<"add", "echo">>
    /\ strm.reqs[3].Tools = <<"add", "echo">>
    /\ gen.reqs[1].Tools = <<"echo">> /\ gen.reqs[3].Tools = <<"add", "echo">>

\* the messages turn t adds to the conversation: the assistant message and
\* one result per tool call
ProducedBy(t) ==
    <<FinalResponse(script[t]).Message>> \o ExpectedResults(script[t].calls)

\* request i carries the list PrepareStep returned for its turn when
\* Overrides(i) says so, and otherwise the messages of request i-1 followed
\* by what turn i-1 produced
PreparedMessagesUsed(reqs, Overrides(_)) ==
    \A i \in 1..Len(reqs) :
        IF Overrides(i) THEN reqs[i].Messages = PreparedFor(i).Messages
        ELSE IF i = 1 THEN reqs[i].Messages = BaseMessages
        ELSE reqs[i].Messages = reqs[i - 1].Messages \o ProducedBy(i - 1)

\* the steps and response messages recorded so far are those of the turns,
\* whatever PrepareStep returned
RecordsOfTurns(steps, responseMessages) ==
    /\ \A k \in 1..Len(steps) :
         /\ steps[k].Response = FinalResponse(script[k])
         /\ steps[k].ToolResults = ExpectedResults(script[k].calls)
    /\ responseMessages = Flatten([k \in 1..Len(steps) |-> ProducedBy(k)])

ResponseMessagesAppendOnly ==
    /\ \A i \in 1..Len(strm.steps) :
         i <= Len(strm.steps') /\ strm.steps'[i] = strm.steps[i]
    /\ \A i \in 1..Len(strm.responseMessages) :
         /\ i <= Len(strm.responseMessages')
         /\ strm.responseMessages'[i] = strm.responseMessages[i]

ReturnsMessages(i) == PreparedFor(i).MessagesSet
ReturnsSomeMessages(i) == PreparedFor(i).MessagesSet /\ PreparedFor(i).Messages # <<>>

\* C28: when PrepareStep returns a message list for a turn, that turn's
\* request carries exactly that list, the requests of later turns are that
\* list followed by the assistant and tool-result messages produced since,
\* and the steps and response messages recorded before stay as they were.
C28_PreparedMessagesUsed ==
    /\ [](/\ PreparedMessagesUsed(gen.reqs, ReturnsMessages)
          /\ PreparedMessagesUsed(strm.reqs, ReturnsMessages)
          /\ (GenDone /\ gen.err = NoErr) =>
                RecordsOfTurns(gen.res.Steps, gen.res.ResponseMessages)
          /\ strm.finalSet => RecordsOfTurns(strm.steps, strm.responseMessages))
    /\ [][ResponseMessagesAppendOnly]_vars

\* the same for the message lists that hold at least one message
C28_NonEmptyPreparedMessagesUsed ==
    /\ [](/\ PreparedMessagesUsed(gen.reqs, ReturnsSomeMessages)
          /\ PreparedMessagesUsed(strm.reqs, ReturnsSomeMessages)
          /\ (GenDone /\ gen.err = NoErr) =>
                RecordsOfTurns(gen.res.Steps, gen.res.ResponseMessages)
          /\ strm.finalSet => RecordsOfTurns(strm.steps, strm.responseMessages))
    /\ [][ResponseMessagesAppendOnly]_vars

\* the model that request i has to name: the one PrepareStep returned for
\* its turn, else the model of the original request
ModelExpected(i) ==
    IF PreparedFor(i).Model # NoModel THEN PreparedFor(i).Model.Name
    ELSE ReqModel.Name

\* C29: a model returned by PrepareStep for a turn is used for that turn's
\* provider request only; a later turn for which PrepareStep returns no
\* model is sent with the model of the original request.
C29_ModelOverrideOneTurn ==
    /\ \A i \in 1..Len(gen.reqs) : gen.reqs[i].Model = ModelExpected(i)
    /\ \A i \in 1..Len(strm.reqs) : strm.reqs[i].Model = ModelExpected(i)

\* the turn for which the model is returned is sent with that model
C29_ModelOverrideAtItsTurn ==
    /\ \A i \in 1..Len(gen.reqs) :
         PreparedFor(i).Model # NoModel => gen.reqs[i].Model = PreparedFor(i).Model.Name
    /\ \A i \in 1..Len(strm.reqs) :
         PreparedFor(i).Model # NoModel => strm.reqs[i].Model = PreparedFor(i).Model.Name

\* PrepareStep returns, for turn k, a model of another provider
Mismatch(k) ==
    /\ opts.PrepareStep # "nil"
    /\ CallerPrepareStep(opts.PrepareStep, k).Model # NoModel
    /\ CallerPrepareStep(opts.PrepareStep, k).Model.Provider # ReqModel.Provider

\* once PrepareStep has returned such a model the run has failed with the
\* mismatch error, nothing was requested for that turn and nothing happens
\* after the call of PrepareStep
FailsFast(log, reqs, err) ==
    \A j \in 1..Len(log) :
        (log[j].ev = "prepare" /\ Mismatch(log[j].turn)) =>
            /\ j = Len(log)
            /\ err.kind = "ProviderMismatch"
            /\ Len(reqs) = log[j].turn

\* C30: when PrepareStep returns a model whose provider is not that of the
\* original request, the run fails at once with an error: no provider call
\* is made for that turn or a later one and no tool handler runs afterwards.
C30_ProviderMismatchFailsFast ==
    /\ FailsFast(gen.log, gen.reqs, gen.err)
    /\ (\E j \in 1..Len(gen.log) :
           gen.log[j].ev = "prepare" /\ Mismatch(gen.log[j].turn))
         => gen.res = ZeroResult
    /\ FailsFast(strm.log, strm.reqs, strm.err)

\* both engines failed at turn 1, after the handlers of turn 0 had run, and
\* the consumer called Next once more
C30_Witness ==
    /\ opts.PrepareStep = "mismatch" /\ Mismatch(1)
    /\ GenDone /\ gen.err.kind = "ProviderMismatch" /\ Len(gen.reqs) = 1
    /\ strm.err.kind = "ProviderMismatch" /\ Len(strm.reqs) = 1
    /\ strm.nexts = 1
    /\ EventsAt(strm.log, "handler_end", 0) # {}
    /\ strm.log[Len(strm.log)] = Ev("prepare", 1, 0)

----------------------------------------------------------------------------
(* Properties of the input hooks of StreamText (checked under SpecLifecycle) *)

\* the places in the log of the hook events ev of the call at position
\* index (from 0) of the turn with step number turn
HookEventsAt(ev, turn, index) ==
    {j \in 1..Len(strm.log) :
        /\ strm.log[j].ev = ev /\ strm.log[j].turn = turn
        /\ strm.log[j].ToolCallIndex = index}

\* the InputTextDelta of the OnInputDelta events of that call, joined
RECURSIVE DeltaTextFrom(_, _, _)
DeltaTextFrom(j, turn, index) ==
    IF j > Len(strm.log) THEN <<>>
    ELSE (IF j \in HookEventsAt("input_delta", turn, index) THEN strm.log[j].text
          ELSE <<>>) \o DeltaTextFrom(j + 1, turn, index)

\* the hook events carry the call's own name, id and position
CarriesCall(j, c, index) ==
    /\ strm.log[j].ToolName = c.Name
    /\ strm.log[j].ToolCallID = c.ID
    /\ strm.log[j].ToolCallIndex = index

\* the hooks of call i of turn t, whose stream was read to its end
InputHooksOf(t, i) ==
    LET c == script[t].calls[i]
        starts == HookEventsAt("input_start", t - 1, i - 1)
        deltas == HookEventsAt("input_delta", t - 1, i - 1)
        avails == {j \in 1..Len(strm.log) :
                     /\ strm.log[j].ev = "input_available"
                     /\ strm.log[j].turn = t - 1 /\ strm.log[j].idx = i}
        ran == EventsAt(strm.log, "handler_start", t - 1)
    IN /\ Cardinality(starts) = 1
       /\ \A j \in starts : CarriesCall(j, c, i - 1) /\ \A k \in deltas : j < k
       /\ \A k \in deltas : CarriesCall(k, c, i - 1)
       /\ DeltaTextFrom(1, t - 1, i - 1) = c.Args
       /\ (\E h \in ran : strm.log[h].idx = i) =>
             /\ Cardinality(avails) = 1
             /\ \A j \in avails :
                  /\ CarriesCall(j, c, i - 1) /\ strm.log[j].text = c.Args
                  /\ \A h \in ran : strm.log[h].idx = i => j < h
                  /\ \A k \in starts \cup deltas : k < j

\* the turns whose provider stream was read to its end
StreamedTurns ==
    {t \in 1..Len(strm.reqs) :
        /\ t <= Len(script) /\ script[t].kind = "resp"
        /\ t < Len(strm.reqs) \/ strm.cur = 0}

\* C31: for every tool call of every turn of a StreamText run whose tool has
\* input hooks, OnInputStart fires exactly once and before every
\* OnInputDelta of the call, the OnInputDelta fragments joined are the
\* call's arguments, and OnInputAvailable fires exactly once with the
\* arguments before the handler runs; each event carries the call's own
\* tool name, id and position.
C31_InputHooksPerCall ==
    strm.hooksOn =>
      \A t \in StreamedTurns : \A i \in 1..Len(script[t].calls) :
          FindTool(reqTools, script[t].calls[i].Name) # 0 => InputHooksOf(t, i)

\* the same for the first turn of a run whose provider names the tool in
\* the first fragment of each call
C31_InputHooksFirstTurnNamed ==
    (strm.hooksOn /\ strm.split \in {"whole", "named"}) =>
      \A t \in StreamedTurns \cap {1} : \A i \in 1..Len(script[t].calls) :
          FindTool(reqTools, script[t].calls[i].Name) # 0 => InputHooksOf(t, i)

\* the stream advanced until Next returns false
RECURSIVE StreamRun(_, _)
StreamRun(st, o) ==
    IF st.ret = "false" THEN st
    ELSE StreamRun(StreamNextOp(st, o, script, reqTools), o)

\* the same request without any observational callback
WithoutCallbacks == [opts EXCEPT !.OnStepFinish = FALSE]
StreamWithoutCallbacks ==
    StreamRun([StreamStart EXCEPT !.split = strm.split, !.hooksOn = FALSE],
              WithoutCallbacks)
GenerateWithoutCallbacks == GenLoop(GenStart, WithoutCallbacks, script, reqTools)

\* the handler invocations of a log
HandlersOf(log) == SelectSeq(log, LAMBDA e : e.ev \in {"handler_start", "handler_end"})

\* C32: registering OnStepFinish, tool progress reporting and the input
\* hooks changes nothing but the callbacks themselves: the provider
\* requests, the handlers invoked and the final response, steps, usage and
\* error are those of the run without them.
C32_CallbacksObservational ==
    /\ strm.ret = "false" =>
         LET ref == StreamWithoutCallbacks
         IN /\ strm.reqs = ref.reqs
            /\ HandlersOf(strm.log) = HandlersOf(ref.log)
            /\ strm.finalSet = ref.finalSet /\ strm.final = ref.final
            /\ strm.steps = ref.steps /\ strm.responseMessages = ref.responseMessages
            /\ strm.aggUsage = ref.aggUsage /\ strm.err = ref.err
            /\ strm.out = ref.out
    /\ GenDone =>
         LET ref == GenerateWithoutCallbacks
         IN /\ gen.reqs = ref.reqs
            /\ HandlersOf(gen.log) = HandlersOf(ref.log)
            /\ gen.res = ref.res /\ gen.err = ref.err

\* both engines finished a run of three turns with every callback
\* registered; the stream's callbacks all fired
C32_Witness ==
    /\ opts.OnStepFinish /\ strm.hooksOn /\ strm.split = "named"
    /\ strm.finalSet /\ Len(strm.steps) = 3
    /\ GenDone /\ gen.err = NoErr /\ Len(gen.res.Steps) = 3
    /\ \A ev \in {"input_start", "input_delta", "input_available", "progress",
                  "stepfinish"} :
         \E j \in 1..Len(strm.log) : strm.log[j].ev = ev
    /\ strm.log # StreamWithoutCallbacks.log

----------------------------------------------------------------------------
(* Properties of the object enforcer (checked under SpecObj) *)

ObjFinished == obj.pc = "done"

\* the run's i-th provider turn
ObjTurnOf(i) == ObjTurnAt(obj.script, i)
\* the arguments of the return call of turn i
RetArgsOf(i) ==
    SelectSeq(ObjTurnOf(i).calls, LAMBDA c : c.Name = ReturnToolName)[1].Args
IsReturnTurn(t) ==
    t.kind = "resp" /\ \E k \in 1..Len(t.calls) : t.calls[k].Name = ReturnToolName
\* the first turn was taken and calls the return tool
FirstTurnReturns == obj.run.reqs # <<>> /\ IsReturnTurn(ObjTurnOf(1))

\* GenerateObject returned this value, this raw JSON and no error of any kind
ObjReturned(object, raw) ==
    /\ obj.api.returned = "resp"
    /\ obj.api.err = NoErr
    /\ obj.api.ValidationError = NoErr
    /\ obj.api.Object = object
    /\ obj.api.RawJSON = raw

\* C11 (as stated): when the first turn calls the return tool with
\* schema-valid JSON, GenerateObject makes exactly one provider call and
\* returns the value decoded from the arguments, the same raw JSON and no
\* validation error.
C11_CompliantFirstTurn ==
    (ObjFinished /\ FirstTurnReturns /\ SchemaValidate(RetArgsOf(1)) = "ok") =>
        /\ Len(obj.run.reqs) = 1
        /\ ObjReturned(Decode(RetArgsOf(1)), RetArgsOf(1))

\* C11 (amended): the same, when the schema-valid JSON also decodes into
\* the target type.
C11_CompliantDecodableFirstTurn ==
    (/\ ObjFinished /\ FirstTurnReturns
     /\ SchemaValidate(RetArgsOf(1)) = "ok" /\ ~DecodeFails(RetArgsOf(1))) =>
        /\ Len(obj.run.reqs) = 1
        /\ ObjReturned(Decode(RetArgsOf(1)), RetArgsOf(1))

C11_Witness ==
    /\ ObjFinished /\ obj.script = <<MixedTurn>> /\ ~obj.Strict
    /\ Len(obj.run.reqs) = 1 /\ obj.api.Object = <<"obj", "i">>
    /\ obj.run.execCalls = <<>>

\* every turn of the script is a return-tool call with schema-invalid JSON
AlwaysSchemaInvalid ==
    /\ obj.script # <<>>
    /\ \A i \in 1..Len(obj.script) : obj.script[i] = RetInvalidTurn

\* C10: in strict mode with maxRetries = N, when every turn calls the
\* return tool with schema-invalid JSON, GenerateObject makes exactly N+1
\* provider calls and fails with the object-validation error.
C10_RetryBound ==
    (/\ ObjFinished /\ obj.Strict /\ obj.MaxRetries >= 0
     /\ AlwaysSchemaInvalid
     /\ ~ToolNameCollides(obj.tools, ReturnToolName)) =>
        /\ Len(obj.run.reqs) = obj.MaxRetries + 1
        /\ obj.api.returned = "nil"
        /\ obj.api.err.kind = "InvalidJSON"

\* MaxRetries as object.Generate uses it
EffMaxRetries == IF obj.MaxRetries < 0 THEN 0 ELSE obj.MaxRetries

\* turns 1..i were all answered in tool mode
ToolsModeAt(i) == \A j \in 1..i : ObjTurnOf(j).kind # "unsupported"

\* a turn that tool mode answers with a corrective retry or a failure: a
\* return call, or no call at all
NoReturnTurn(t) == t.kind = "resp" /\ t.calls = <<>>
RetriesBefore(i) ==
    Cardinality({j \in 1..(i - 1) : IsReturnTurn(ObjTurnOf(j)) \/ NoReturnTurn(ObjTurnOf(j))})

FailsCandidate(raw) == SchemaValidate(raw) # "ok" \/ DecodeFails(raw)
WhyOf(raw) == IF SchemaValidate(raw) # "ok" THEN SchemaValidate(raw) ELSE "decode"

\* turn i called the return tool with arguments that fail validation or
\* decoding, in strict tool mode with retry budget left
InvalidReturnWithBudget(i) ==
    /\ obj.Strict /\ ToolsModeAt(i)
    /\ IsReturnTurn(ObjTurnOf(i)) /\ FailsCandidate(RetArgsOf(i))
    /\ RetriesBefore(i) < EffMaxRetries

\* the text of the corrective message for these arguments: the error and
\* the JSON, cut after CorrectionMax
CorrectiveText(raw) ==
    <<"invalid", WhyOf(raw)>> \o
    (IF Len(raw) > CorrectionMax THEN SubSeq(raw, 1, CorrectionMax) \o <<"...">> ELSE raw)

\* the request after turn i is the one before it (less its own corrective
\* message), the model's message of turn i and the system message m
RetriesWith(i, m) ==
    LET msgs == obj.run.reqs[i + 1].Messages
        prev == obj.run.reqs[i].Messages
        n == Len(msgs)
    IN /\ n >= 2
       /\ msgs[n] = m
       /\ msgs[n - 1] = FinalResponse(ObjTurnOf(i)).Message
       /\ \/ SubSeq(msgs, 1, n - 2) = prev
          \/ SubSeq(msgs, 1, n - 2) = SubSeq(prev, 1, Len(prev) - 1)

\* a valid return call on the turn after turn i ends the run with its value
NextValidSucceeds(i) ==
    (IsReturnTurn(ObjTurnOf(i + 1)) /\ ~FailsCandidate(RetArgsOf(i + 1))) =>
        /\ Len(obj.run.reqs) = i + 1
        /\ ObjReturned(Decode(RetArgsOf(i + 1)), RetArgsOf(i + 1))

\* C12: in strict mode, when the return-tool arguments of a turn fail
\* validation or decoding and retry budget remains, a next provider request
\* is made and ends with a system message quoting the error and the
\* (bounded) invalid JSON; when that next turn returns valid JSON, the call
\* succeeds with its decoded value and makes no further provider call (two
\* calls when the failing turn was the first).
C12_CorrectiveRetry ==
    ObjFinished =>
      \A i \in 1..Len(obj.run.reqs) :
        InvalidReturnWithBudget(i) =>
          /\ Len(obj.run.reqs) > i
          /\ RetriesWith(i, SystemMsg(CorrectiveText(RetArgsOf(i))))
          /\ NextValidSucceeds(i)

\* the same while the iteration cap leaves room for the next turn
C12_CorrectiveRetryWithinCap ==
    ObjFinished =>
      \A i \in 1..Len(obj.run.reqs) :
        (InvalidReturnWithBudget(i) /\ i < EffectiveMaxIterations(obj.MaxIterations)) =>
          /\ Len(obj.run.reqs) > i
          /\ RetriesWith(i, SystemMsg(CorrectiveText(RetArgsOf(i))))
          /\ NextValidSucceeds(i)

\* turn i was answered in JSON-only mode: an earlier call signalled that
\* tools are unsupported
JsonModeAt(i) == \E j \in 1..(i - 1) : ObjTurnOf(j).kind = "unsupported"

\* turn i carries candidate JSON: the return call's arguments in tool mode,
\* the response text in JSON-only mode
HasCandidate(i) ==
    \/ ToolsModeAt(i) /\ IsReturnTurn(ObjTurnOf(i))
    \/ JsonModeAt(i) /\ ObjTurnOf(i).kind = "resp"
CandidateAt(i) ==
    IF JsonModeAt(i) THEN Flatten(ObjTurnOf(i).frags) ELSE RetArgsOf(i)

\* C13: in non-strict mode the first validation or decode failure of the
\* candidate JSON ends the call: it was the last provider call, no error is
\* returned, and the result carries that raw JSON and a validation error.
C13_NonStrictFirstFailureEnds ==
    (ObjFinished /\ ~obj.Strict) =>
      \A i \in 1..Len(obj.run.reqs) :
        (HasCandidate(i) /\ FailsCandidate(CandidateAt(i))) =>
          /\ Len(obj.run.reqs) = i
          /\ obj.api.returned = "resp"
          /\ obj.api.err = NoErr
          /\ obj.api.ValidationError # NoErr
          /\ obj.api.ValidationError.kind = WhyOf(CandidateAt(i))
          /\ obj.api.RawJSON = CandidateAt(i)
          /\ obj.api.Object = NoObject

C13_Witness ==
    /\ ObjFinished /\ ~obj.Strict /\ obj.MaxRetries = 2
    /\ obj.script = <<OneCallTurn, RetUndecTurn, RetValidTurn>>
    /\ Len(obj.run.reqs) = 2
    /\ obj.api.ValidationError.kind = "decode"
    /\ obj.api.RawJSON = JsonDoc("f")

\* the errors of tool dispatch and of the iteration cap
AbortingErrKinds == {"NoSuchTool", "InvalidToolInput", "ToolExecution", "MaxIterations"}

\* C14: a tool-dispatch error or an iteration-cap error inside GenerateObject
\* is returned as an error, with no response, in non-strict mode as in
\* strict mode.
C14_DispatchAndCapErrorsAbort ==
    (ObjFinished /\ obj.run.err.kind \in AbortingErrKinds) =>
        /\ obj.api.returned = "nil"
        /\ obj.api.err = obj.run.err
        /\ obj.api.ValidationError = NoErr

\* C15: after a provider call that signals ToolsUnsupported, every further
\* provider request has an empty tools list, the text of a response is the
\* candidate JSON (validated and decoded: a valid one is the result), and
\* the ToolsUnsupported signal is never returned to the caller, neither as
\* the error nor inside the result.
C15_FallbackOnToolsUnsupported ==
    ObjFinished =>
      /\ \A i \in 1..Len(obj.run.reqs) :
           JsonModeAt(i) =>
             /\ obj.run.reqs[i].Tools = <<>>
             /\ (HasCandidate(i) /\ ~FailsCandidate(CandidateAt(i))) =>
                  /\ Len(obj.run.reqs) = i
                  /\ ObjReturned(Decode(CandidateAt(i)), CandidateAt(i))
      /\ obj.api.err.kind # "ToolsUnsupported"
      /\ obj.api.ValidationError.kind # "ToolsUnsupported"

HasMessage(msgs, m) == \E k \in 1..Len(msgs) : msgs[k] = m

\* C16: every request sent in JSON-only mode contains the JSON-only system
\* instruction and does not contain the instruction to call the return tool.
C16_JsonOnlyInstructionReplaces ==
    ObjFinished =>
      \A i \in 1..Len(obj.run.reqs) :
        JsonModeAt(i) =>
          /\ HasMessage(obj.run.reqs[i].Messages, SystemMsg(<<"json-only">>))
          /\ ~HasMessage(obj.run.reqs[i].Messages,
                         SystemMsg(<<"must-call", ReturnToolName>>))

\* the call that signalled ToolsUnsupported and caused the switch
Switched == \E k \in 1..Len(obj.run.reqs) : ObjTurnOf(k).kind = "unsupported"
FirstSwitch == CHOOSE k \in 1..Len(obj.run.reqs) :
                  /\ ObjTurnOf(k).kind = "unsupported"
                  /\ \A j \in 1..(k - 1) : ObjTurnOf(j).kind # "unsupported"

\* C17: in strict mode with maxRetries = N, JSON-only mode makes at most
\* N+1 provider calls counted from the switch, whatever was used before it;
\* each failed attempt but the last is followed by a request with exactly one
\* more message, the corrective instruction for that attempt; and the call
\* fails hard when attempt N+1 is still invalid.
C17_JsonOnlyOwnBudget ==
    (ObjFinished /\ obj.Strict /\ Switched) =>
      LET k == FirstSwitch
          n == Len(obj.run.reqs)
      IN /\ n - k <= EffMaxRetries + 1
         /\ \A i \in (k + 1)..n :
              (ObjTurnOf(i).kind = "resp" /\ FailsCandidate(CandidateAt(i))) =>
                IF i - k <= EffMaxRetries
                THEN /\ n > i
                     /\ obj.run.reqs[i + 1].Messages =
                          Append(obj.run.reqs[i].Messages,
                                 SystemMsg(CorrectiveText(CandidateAt(i))))
                ELSE /\ n = i
                     /\ obj.api.returned = "nil"
                     /\ obj.api.err.kind = "InvalidJSON"

C17_Witness ==
    /\ ObjFinished /\ obj.Strict /\ obj.MaxRetries = 1 /\ obj.MaxIterations = 2
    /\ obj.script = <<RetInvalidTurn, UnsupportedTurn, BadTextTurn>>
    /\ Len(obj.run.reqs) = 4
    /\ obj.api.err.kind = "InvalidJSON"

\* a request whose last message is a corrective instruction of either kind
IsCorrective(m) ==
    /\ m.Role = "system" /\ Len(m.Text) >= 1
    /\ m.Text[1] \in {"did-not-call", "invalid"}
CorrectiveRequests ==
    {i \in 2..Len(obj.run.reqs) :
        /\ ToolsModeAt(i - 1)
        /\ IsCorrective(obj.run.reqs[i].Messages[Len(obj.run.reqs[i].Messages)])}

\* a tool-mode turn that asks for a corrective retry
AsksRetry(i) ==
    /\ ToolsModeAt(i)
    /\ \/ NoReturnTurn(ObjTurnOf(i))
       \/ IsReturnTurn(ObjTurnOf(i)) /\ FailsCandidate(RetArgsOf(i))

\* the shared budget: at most maxRetries corrective requests in tool mode,
\* and a turn that asks for one more fails the call
SharedBudget ==
    /\ Cardinality(CorrectiveRequests) <= EffMaxRetries
    /\ \A i \in 1..Len(obj.run.reqs) :
         (AsksRetry(i) /\ RetriesBefore(i) >= EffMaxRetries) =>
           /\ Len(obj.run.reqs) = i
           /\ obj.api.returned = "nil"
           /\ obj.api.err.kind =
                IF NoReturnTurn(ObjTurnOf(i)) THEN "NoReturnCall" ELSE "InvalidJSON"

\* C18: in strict mode a turn without any tool call is answered, while the
\* budget lasts, with the must-call instruction and another provider turn;
\* these retries and the validation-failure retries share one budget: a run
\* never has more than maxRetries corrective retries, and fails at the turn
\* that would need one more.
C18_MustCallSharedBudget ==
    (ObjFinished /\ obj.Strict) =>
      /\ SharedBudget
      /\ \A i \in 1..Len(obj.run.reqs) :
           (/\ ToolsModeAt(i) /\ NoReturnTurn(ObjTurnOf(i))
            /\ RetriesBefore(i) < EffMaxRetries) =>
             /\ Len(obj.run.reqs) > i
             /\ RetriesWith(i, SystemMsg(<<"did-not-call", ReturnToolName>>))

\* the same while the iteration cap leaves room for the next turn
C18_MustCallSharedBudgetWithinCap ==
    (ObjFinished /\ obj.Strict) =>
      /\ SharedBudget
      /\ \A i \in 1..Len(obj.run.reqs) :
           (/\ ToolsModeAt(i) /\ NoReturnTurn(ObjTurnOf(i))
            /\ RetriesBefore(i) < EffMaxRetries
            /\ i < EffectiveMaxIterations(obj.MaxIterations)) =>
             /\ Len(obj.run.reqs) > i
             /\ RetriesWith(i, SystemMsg(<<"did-not-call", ReturnToolName>>))

----------------------------------------------------------------------------
(* Properties of both object enforcers (checked under SpecEnforcers) *)

\* no call list handed to the tool executor holds a call of the return tool
NoReturnCallIn(execCalls) ==
    \A k \in 1..Len(execCalls) : \A j \in 1..Len(execCalls[k]) :
        execCalls[k][j].Name # ReturnToolName

\* nothing but the provider call is on record for a turn with a return call
NoDispatchAtReturnTurns(scr, reqs, log) ==
    \A i \in 1..Len(reqs) :
        IsReturnTurn(ObjTurnAt(scr, i)) =>
            \A k \in 1..Len(log) :
                log[k].turn = i => log[k].ev \in {"provider_start", "provider_end"}

\* C19: in no run of the object enforcer, blocking or streaming, is a call
\* of the return tool handed to the tool executor or to a handler, and a
\* turn that carries a return call leads to no dispatch at all: its
\* arguments are taken as the candidate before any other call is executed.
C19_ReturnCallNeverDispatched ==
    /\ NoReturnCallIn(obj.run.execCalls)
    /\ NoReturnCallIn(ostrm.execCalls)
    /\ NoDispatchAtReturnTurns(obj.script, obj.run.reqs, obj.run.log)
    /\ NoDispatchAtReturnTurns(ostrm.script, ostrm.reqs, ostrm.log)

C19_Witness ==
    /\ obj.pc = "done" /\ obj.script = <<OneCallTurn, MixedTurn>>
    /\ obj.run.execCalls = << <<COk1>> >>
    /\ obj.api.RawJSON = JsonDoc("i")
    /\ ostrm.finalObjSet /\ ostrm.execCalls = << <<COk1>> >>
    /\ ostrm.finalRaw = JsonDoc("i")

\* the caller declared a tool with the reserved name
DeclaresReserved(tools) == \E k \in 1..Len(tools) : tools[k].Name = ReturnToolName

\* C20: when the caller's tools include one with the reserved return-tool
\* name, GenerateObject returns an error and StreamObject's stream ends with
\* an error, and neither makes a provider call.
C20_CollisionFailsBeforeAnyCall ==
    /\ (obj.pc = "done" /\ DeclaresReserved(obj.tools)) =>
         /\ obj.run.reqs = <<>>
         /\ obj.api.returned = "nil"
         /\ obj.api.err # NoErr
    /\ (ostrm.pc = "open" /\ DeclaresReserved(ostrm.userTools)) =>
         /\ ostrm.reqs = <<>>
         /\ ostrm.ret # "none" => (ostrm.ret = "false" /\ ostrm.err # NoErr)

\* the blocking half in strict mode, where it holds
C20_StrictGenerateObjectCollision ==
    (obj.pc = "done" /\ obj.Strict /\ DeclaresReserved(obj.tools)) =>
         /\ obj.run.reqs = <<>>
         /\ obj.api.returned = "nil"
         /\ obj.api.err.kind = "Collision"

\* the field-wise sum of the usage of the responses to the first n requests
RECURSIVE UsageOfTurns(_)
UsageOfTurns(n) ==
    IF n = 0 THEN ZeroUsage
    ELSE LET rest == UsageOfTurns(n - 1)
             u == IF ObjTurnOf(n).kind = "resp" THEN ObjTurnOf(n).usage ELSE ZeroUsage
         IN [PromptTokens |-> rest.PromptTokens + u.PromptTokens,
             CompletionTokens |-> rest.CompletionTokens + u.CompletionTokens,
             TotalTokens |-> rest.TotalTokens + u.TotalTokens]

\* a response was received before the provider signalled that it does not
\* support tools
ResponseBeforeSwitch ==
    \E i, j \in 1..Len(obj.run.reqs) :
        i < j /\ ObjTurnOf(i).kind = "resp" /\ ObjTurnOf(j).kind = "unsupported"

\* C33: the usage GenerateObject returns is the field-wise sum of the usage
\* of every provider response received during the call: turns that failed
\* validation, tool rounds and turns before a switch to JSON-only included.
C33_UsageOfEveryResponse ==
    (ObjFinished /\ obj.api.returned = "resp") =>
        obj.api.Usage = UsageOfTurns(Len(obj.run.reqs))

\* the same for the runs in which no response precedes the switch and the
\* loop did not end with a dispatch or cap error
C33_UsageUnlessSwitchedAfterResponse ==
    (/\ ObjFinished /\ obj.api.returned = "resp"
     /\ ~ResponseBeforeSwitch
     /\ obj.run.err.kind \notin AbortingErrKinds) =>
        obj.api.Usage = UsageOfTurns(Len(obj.run.reqs))

\* a run that switched after a response and returned an object
C33_SwitchedAfterResponse ==
    /\ ObjFinished /\ obj.api.returned = "resp" /\ obj.run.err = NoErr
    /\ ResponseBeforeSwitch
    /\ obj.api.Usage # UsageOfTurns(Len(obj.run.reqs))

----------------------------------------------------------------------------
(* Properties of the streaming object enforcer (checked under SpecObjStream) *)

\* the arguments of the first return call of a turn
RetArgsIn(t) == SelectSeq(t.calls, LAMBDA c : c.Name = ReturnToolName)[1].Args

\* the corrective requests the stream has sent
StreamCorrectives ==
    {i \in 1..Len(ostrm.reqs) :
        IsCorrective(ostrm.reqs[i].Messages[Len(ostrm.reqs[i].Messages)])}

\* the stream has ended with an error at a turn that asks for a corrective
\* retry: a return call with failing arguments, or no tool call at all
StreamFailedAtRetryTurn ==
    /\ ostrm.pc = "open" /\ ostrm.ret = "false" /\ ostrm.err # NoErr
    /\ ostrm.reqs # <<>>
    /\ LET t == ObjTurnAt(ostrm.script, Len(ostrm.reqs))
       IN /\ t.kind = "resp"
          /\ \/ t.calls = <<>>
             \/ IsReturnTurn(t) /\ FailsCandidate(RetArgsIn(t))

\* C21: in strict mode the object stream fails at a return call with invalid
\* arguments, or at a turn without tool calls, only once the retry budget is
\* used up: with budget left the turn is followed by a corrective
\* instruction and a further provider turn.
C21_StreamRetriesWithinBudget ==
    (ostrm.Strict /\ StreamFailedAtRetryTurn) =>
        Cardinality(StreamCorrectives) >= ostrm.MaxRetries

\* the provider signals ToolsUnsupported when the stream is opened, and as
\* long as it signals it, and then answers with schema-valid JSON text
FallbackThenValidText ==
    /\ ostrm.script # <<>> /\ ostrm.script[1].kind = "unsupported"
    /\ \E k \in 2..(Len(ostrm.script) + 1) :
          /\ ObjTurnAt(ostrm.script, k) = JsonTextTurn
          /\ \A j \in 1..(k - 1) : ObjTurnAt(ostrm.script, j).kind = "unsupported"

\* C22: when opening the stream signals ToolsUnsupported and the model then
\* returns schema-valid JSON text, the object stream finishes with no error,
\* with the decoded value as its object and that text as its raw JSON.
C22_StreamFallbackSucceeds ==
    (/\ ostrm.pc = "open" /\ FallbackThenValidText
     /\ ostrm.ret \in {"false", "panic"}) =>
        /\ ostrm.ret = "false"
        /\ ostrm.err = NoErr
        /\ ostrm.finalObjSet
        /\ ostrm.finalObj = Decode(JsonDoc("i"))
        /\ ostrm.finalRaw = JsonDoc("i")

\* the position, in the current turn, of its first return call (0: none)
ReturnIndex(t) ==
    IF IsReturnTurn(t)
    THEN CHOOSE i \in 1..Len(t.calls) :
            /\ t.calls[i].Name = ReturnToolName
            /\ \A j \in 1..(i - 1) : t.calls[j].Name # ReturnToolName
    ELSE 0

\* the argument text of these deltas for the call at position idx
RECURSIVE ArgTextAt(_, _)
ArgTextAt(ds, idx) ==
    IF ds = <<>> THEN <<>>
    ELSE LET own == SelectSeq(Head(ds).ToolCalls, LAMBDA d : d.Index = idx - 1)
         IN (IF own = <<>> THEN <<>> ELSE own[1].ArgumentsDelta)
            \o ArgTextAt(Tail(ds), idx)

\* the return tool's argument text received so far in the open turn
ReturnTextSoFar ==
    LET t == ObjTurnAt(ostrm.script, ostrm.cur)
    IN ArgTextAt(SubSeq(SplitDeltas(t, ostrm.split), 1, ostrm.pos), ReturnIndex(t))

\* C23: while a turn is streaming (to a consumer that stops at the first
\* false), the partial view is there exactly when the return tool's argument
\* text received so far is valid JSON, and is then the decoding of that
\* text; a fragment never fails the stream.
C23_PartialTracksReturnArgs ==
    (ostrm.pc = "open" /\ ostrm.cur # 0 /\ ostrm.nexts = 0) =>
        /\ ostrm.partial # NoPartial =>
             /\ JsonValid(ReturnTextSoFar)
             /\ ostrm.partial = <<"map", ReturnTextSoFar[2]>>
        /\ JsonValid(ReturnTextSoFar) => ostrm.partial # NoPartial
        /\ ostrm.err = NoErr /\ ostrm.ret # "panic"

\* the same for a provider stream that names the tool in every fragment
C23_PartialWhenEveryFragmentIsNamed ==
    (ostrm.pc = "open" /\ ostrm.cur # 0 /\ ostrm.split = "whole" /\ ostrm.nexts = 0) =>
        /\ ostrm.partial # NoPartial =>
             /\ JsonValid(ReturnTextSoFar)
             /\ ostrm.partial = <<"map", ReturnTextSoFar[2]>>
        /\ JsonValid(ReturnTextSoFar) => ostrm.partial # NoPartial
        /\ ostrm.err = NoErr /\ ostrm.ret # "panic"

----------------------------------------------------------------------------
(* Properties of the delta decoder (checked under SpecDec) *)

\* the pieces of the stream, in order of arrival
RECURSIVE PiecesOf(_)
PiecesOf(chunks) ==
    IF chunks = <<>> THEN <<>> ELSE Head(chunks).ToolCalls \o PiecesOf(Tail(chunks))

\* what the server sent for position idx: the argument fragments joined
SentArgs(idx) ==
    LET own == SelectSeq(PiecesOf(dec.chunks), LAMBDA tc : tc.Index = idx)
    IN Flatten([k \in 1..Len(own) |-> own[k].Arguments])

\* the decoder has read the whole stream and built its final response
DecFinished == dec.pc = "open" /\ dec.finalSet

\* C24: whatever the cut of each call's arguments into non-empty fragments,
\* however the positions interleave and wherever id and name arrive, the
\* final response lists the calls in position order, each with its id, its
\* name and exactly the arguments string that was sent for its position.
C24_FragmentsReassembled ==
    DecFinished =>
      /\ Len(dec.final.Message.Calls) = Len(DecCalls)
      /\ \A p \in 1..Len(DecCalls) :
           /\ dec.final.Message.Calls[p].Args = SentArgs(p - 1)
           /\ dec.final.Message.Calls[p] = DecCalls[p]

\* a run in which position 1 starts before position 0, the two interleave,
\* and the name of position 0 comes after all its arguments
C24_Witness ==
    /\ DecFinished
    /\ LET ps == PiecesOf(dec.chunks)
       IN /\ Len(ps) = 5
          /\ ps[1].Index = 1 /\ ps[1].Name = "" /\ ps[1].Arguments # <<>>
          /\ ps[2].Index = 0 /\ ps[2].Name = ""
          /\ ps[3].Index = 1 /\ ps[3].Name = "echo"
          /\ ps[4].Index = 0 /\ ps[4].Name = ""
          /\ ps[5].Index = 0 /\ ps[5].Name = "add" /\ ps[5].Arguments = <<>>
    /\ dec.final.Message.Calls = DecCalls


----------------------------------------------------------------------------
(* Properties of Agent (checked under SpecAgent) *)

\* the Agent sets neither MaxIterations nor StopWhen
AgentLoopUnset == agent # NoAgent /\ agent.MaxIterations <= 0 /\ agent.StopWhen = "nil"

\* C34: an Agent with neither MaxIterations nor StopWhen set runs a single
\* step: a Generate run and a Stream run make at most one provider call
\* each, whatever the model returns.
C34_AgentDefaultsToOneStep ==
    AgentLoopUnset => (Len(gen.reqs) <= 1 /\ Len(strm.reqs) <= 1)

\* both runs of a default Agent are over after a turn that asked for tools
\* and a script that had more turns to give
C34_Witness ==
    /\ AgentLoopUnset /\ GenDone /\ StrmDone
    /\ Len(script) > 1 /\ script[1] = OneCallTurn
    /\ Len(gen.reqs) = 1 /\ Len(strm.reqs) = 1
    /\ gen.err.kind = "MaxIterations" /\ strm.err.kind = "MaxIterations"


----------------------------------------------------------------------------
(* Properties of StreamText's timeout (checked under SpecTimeout) *)

\* the deadline has not passed and the caller has not cancelled
NothingEndedIt == ~strm.ctx.elapsed /\ ~strm.ctx.parentDone

\* C35: the context of a stream built with a positive Timeout stays live
\* after StreamText has returned; it is done only once the timeout has
\* elapsed or the caller's context is cancelled.
C35_StreamContextLiveUntilDeadline ==
    (strm.ctx # NoCtx /\ strm.ctx.deadline > 0 /\ NothingEndedIt) =>
        ~CtxDone(strm.ctx)

\* the same for a stream built without a Timeout
C35_StreamContextLiveWithoutTimeout ==
    (strm.ctx # NoCtx /\ strm.ctx.deadline = 0 /\ NothingEndedIt) =>
        (~CtxDone(strm.ctx) /\ (strm.err.kind = "Provider" => script[Len(strm.reqs)].kind = "error"))

\* a stream with a Timeout whose provider never fails has ended with the
\* provider's error at its first call, before the deadline
C35_FailsBeforeDeadline ==
    /\ strm.ctx.deadline > 0 /\ NothingEndedIt
    /\ \A i \in 1..Len(script) : script[i].kind = "resp"
    /\ strm.ret = "false" /\ strm.err.kind = "Provider" /\ Len(strm.reqs) = 1


----------------------------------------------------------------------------
(* Properties of the messages of a request (checked under SpecObj, and for *)
(* the text engines under Spec)                                             *)

\* the nearest assistant message before position i (0: none)
NearestAssistant(msgs, i) ==
    LET before == {j \in 1..(i - 1) : msgs[j].Role = "assistant"}
    IN IF before = {} THEN 0 ELSE CHOOSE j \in before : \A k \in before : k <= j

\* each tool message bears the id of a call of the nearest assistant message
\* before it
ToolMessagesPaired(msgs) ==
    \A i \in 1..Len(msgs) :
        msgs[i].Role = "tool" =>
            /\ msgs[i].ToolCallID # ""
            /\ NearestAssistant(msgs, i) # 0
            /\ \E k \in 1..Len(msgs[NearestAssistant(msgs, i)].Calls) :
                   msgs[NearestAssistant(msgs, i)].Calls[k].ID = msgs[i].ToolCallID

\* each call of an assistant message has a tool message with its id after it
ToolCallsAnswered(msgs) ==
    \A j \in 1..Len(msgs) :
        msgs[j].Role = "assistant" =>
            \A k \in 1..Len(msgs[j].Calls) :
                \E i \in (j + 1)..Len(msgs) :
                    msgs[i].Role = "tool" /\ msgs[i].ToolCallID = msgs[j].Calls[k].ID

\* the requests sent so far by the engines that run
RequestsSent ==
    {gen.reqs[i] : i \in 1..Len(gen.reqs)} \cup {strm.reqs[i] : i \in 1..Len(strm.reqs)}
    \cup {obj.run.reqs[i] : i \in 1..Len(obj.run.reqs)}
    \cup {ostrm.reqs[i] : i \in 1..Len(ostrm.reqs)}

\* C36: in every provider request of the text engines and of the object
\* enforcer, PrepareStep not overriding the messages, each tool message has
\* a non-empty toolCallId that is the id of a call of the nearest assistant
\* message before it, and each call of an assistant message in the request
\* is answered by a tool message with its id later in the request.
C36_ToolMessagesPairedWithCalls ==
    opts.PrepareStep # "msgs" =>
        \A r \in RequestsSent :
            ToolMessagesPaired(r.Messages) /\ ToolCallsAnswered(r.Messages)

\* the first half: no request holds a tool message without its call
C36_ToolMessagesPaired ==
    opts.PrepareStep # "msgs" =>
        \A r \in RequestsSent : ToolMessagesPaired(r.Messages)

\* both halves in the requests of the text engines
C36_TextEnginesPaired ==
    opts.PrepareStep # "msgs" =>
        \A r \in {gen.reqs[i] : i \in 1..Len(gen.reqs)}
                  \cup {strm.reqs[i] : i \in 1..Len(strm.reqs)} :
            ToolMessagesPaired(r.Messages) /\ ToolCallsAnswered(r.Messages)


----------------------------------------------------------------------------
(* Properties of the active tools at dispatch (checked under Spec) *)

\* the names of the tools whose handlers the run has invoked, each with the
\* request (turn) the call was made in
HandlersInvoked(log) ==
    {<<log[e].turn + 1, script[log[e].turn + 1].calls[log[e].idx].Name>> :
        e \in HandlerRuns(log)}

\* C37: a tool that is not in the active set of a turn is never executed
\* for a call made in that turn.
C37_InactiveToolNeverRuns ==
    \A h \in HandlersInvoked(gen.log) \cup HandlersInvoked(strm.log) :
        \E k \in 1..Len(ToolsExpected(h[1])) : ToolsExpected(h[1])[k] = h[2]

\* every tool executed is a declared tool
C37_OnlyDeclaredToolsRun ==
    \A h \in HandlersInvoked(gen.log) \cup HandlersInvoked(strm.log) :
        \E k \in 1..Len(reqTools) : reqTools[k].Name = h[2]

\* add has run for a call of the turn in which only echo was active
C37_InactiveToolRan ==
    /\ opts.PrepareStep = "active" /\ GenDone /\ StrmDone
    /\ ToolsExpected(1) = <<"echo">>
    /\ <<1, "add">> \in HandlersInvoked(gen.log) \cap HandlersInvoked(strm.log)


----------------------------------------------------------------------------
(* Properties of a stream that has ended (checked under SpecObjStream, and *)
(* for the text stream under Spec)                                          *)

\* a Next on a text stream that has returned false returns false and leaves
\* the requests, the events of handlers and hooks, and the results alone
TextStreamStaysEnded ==
    strm.ret = "false" =>
        /\ strm'.ret = "false"
        /\ strm'.reqs = strm.reqs /\ strm'.log = strm.log
        /\ strm'.final = strm.final /\ strm'.finalSet = strm.finalSet
        /\ strm'.aggUsage = strm.aggUsage /\ strm'.steps = strm.steps
        /\ strm'.responseMessages = strm.responseMessages
        /\ strm'.err = strm.err

\* the same on an object stream
ObjectStreamStaysEnded ==
    ostrm.ret = "false" =>
        /\ ostrm'.ret = "false"
        /\ ostrm'.reqs = ostrm.reqs /\ ostrm'.log = ostrm.log
        /\ ostrm'.execCalls = ostrm.execCalls
        /\ ostrm'.finalObjSet = ostrm.finalObjSet /\ ostrm'.finalObj = ostrm.finalObj
        /\ ObjStreamRaw(ostrm') = ObjStreamRaw(ostrm)
        /\ ostrm'.usage = ostrm.usage
        /\ ostrm'.err = ostrm.err

\* C38: once Next has returned false on a text stream or an object stream,
\* every later Next returns false, issues no provider call, invokes no
\* handler or hook, and leaves the final response, the object, the raw
\* JSON, the usage, the steps and the error as they were.
C38_NextAfterFalse == [][TextStreamStaysEnded /\ ObjectStreamStaysEnded]_vars

\* the text stream alone
C38_TextNextAfterFalse == [][TextStreamStaysEnded]_vars

\* the object stream, when it ended with an error or with an object
C38_ObjectNextAfterErrorOrObject ==
    [][(ostrm.err # NoErr \/ ostrm.finalObjSet \/ ostrm.fallback)
          => ObjectStreamStaysEnded]_vars

\* an object stream that ended on invalid arguments in non-strict mode has
\* sent a second request at the Next that followed
C38_CalledAgainAfterFalse ==
    /\ ~ostrm.Strict /\ ostrm.nexts = 1 /\ ostrm.err = NoErr
    /\ Len(ostrm.reqs) = 2
    /\ IsReturnTurn(ObjTurnAt(ostrm.script, 1))


----------------------------------------------------------------------------
(* Properties of Steps() and Response() of a text stream (checked under    *)
(* SpecAccessors)                                                           *)

\* Steps() returned one step for each step the engine has recorded
AllStepsReturned ==
    /\ Len(strm.view.steps) = Len(strm.steps)
    /\ \A k \in 1..Len(strm.steps) :
          /\ strm.view.steps[k].StepNumber = strm.steps[k].StepNumber
          /\ strm.view.steps[k].ToolCalls = strm.steps[k].ToolCalls
          /\ strm.view.steps[k].Usage = strm.steps[k].Response.Usage

\* Response() returned one message for each response message of the run
AllMessagesReturned ==
    /\ Len(strm.view.resp) = Len(strm.responseMessages)
    /\ \A k \in 1..Len(strm.responseMessages) :
          /\ strm.view.resp[k].Role = strm.responseMessages[k].Role
          /\ strm.view.resp[k].Text = strm.responseMessages[k].Text
          /\ strm.view.resp[k].ToolCallID = strm.responseMessages[k].ToolCallID

\* C39: Steps() and Response() of a text stream reflect the engine's state
\* at the time of the call: asked after the stream is exhausted they return
\* all recorded steps and all response messages of the run, whether or not
\* they were also asked while the stream was running.
C39_AccessorsReflectTheRun ==
    /\ strm.view.stepsAtEnd => AllStepsReturned
    /\ strm.view.respAtEnd => AllMessagesReturned

\* the same when no call made while the stream was running found anything
C39_AccessorsFirstAskedAtEnd ==
    /\ (strm.view.stepsAtEnd /\ ~strm.view.stepsEarly) => AllStepsReturned
    /\ (strm.view.respAtEnd /\ ~strm.view.respEarly) => AllMessagesReturned

\* Steps() asked after the end of a run of three steps returned the one
\* step an earlier call had found
C39_StaleSteps ==
    /\ strm.ret = "false" /\ strm.err = NoErr /\ Len(strm.steps) = 3
    /\ strm.view.stepsAtEnd /\ Len(strm.view.steps) = 1


----------------------------------------------------------------------------
(* Properties of Raw() of the object stream (checked under SpecObjStream) *)

\* the stream has ended with an object on the tool path
EndedWithObject ==
    ostrm.ret = "false" /\ ostrm.finalObjSet /\ ~ostrm.fallback /\ ostrm.err = NoErr

\* Raw() against the return call of the turn: its fragments so far while
\* the turn streams, its complete arguments once the stream has ended with
\* an object
RawIsOfReturnCall ==
    /\ ostrm.cur # 0 => ObjStreamRaw(ostrm) = ReturnTextSoFar
    /\ EndedWithObject =>
          ObjStreamRaw(ostrm) = RetArgsIn(ObjTurnAt(ostrm.script, Len(ostrm.reqs)))

\* C40: Raw() of an object stream holds only argument fragments of the
\* return call, joined in arrival order; fragments of other tool calls of
\* the turn are never mixed in, and when the stream has ended with an
\* object on the tool path Raw() is the return call's complete arguments.
C40_RawHoldsReturnArgsOnly ==
    (ostrm.pc = "open" /\ ~ostrm.fallback /\ ostrm.nexts = 0) => RawIsOfReturnCall

\* the same for a provider stream that names the tool in every fragment
C40_RawWhenEveryFragmentIsNamed ==
    (ostrm.pc = "open" /\ ~ostrm.fallback /\ ostrm.nexts = 0
     /\ ostrm.split = "whole") => RawIsOfReturnCall

\* the stream has ended with an object and Raw() is not the return call's
\* arguments
C40_RawMixed ==
    /\ ostrm.pc = "open" /\ ostrm.nexts = 0 /\ EndedWithObject
    /\ ObjStreamRaw(ostrm) # RetArgsIn(ObjTurnAt(ostrm.script, Len(ostrm.reqs)))
    /\ ostrm.finalRaw = RetArgsIn(ObjTurnAt(ostrm.script, Len(ostrm.reqs)))

=============================================================================
